---- MODULE Spec2Model ----
(***************************************************************************)
(* The reverse-mode AD tape of infergo (ad/tape.go) with the registry of   *)
(* elemental gradients, driven by the differentiated functions of the      *)
(* tape's test suite.                                                      *)
(*                                                                         *)
(* float64 values are modelled as exact rationals <<num, den>> in lowest   *)
(* terms with den > 0; <<0, 0>> stands for the IEEE 754 specials (a        *)
(* division by zero or an operation on its outcome).  Indices kept in      *)
(* records and counter frames are 0-based as in the source; a sequence s   *)
(* is read at the Go index i as s[i + 1].                                  *)
(***************************************************************************)
EXTENDS Integers, Sequences, FiniteSets, TLC

\* ------------------------------------------------------------------------
\* Bounds of the model

\* deepest nesting of frames (Setup inside an open frame)
MaxDepth == 2
\* number of frames opened over a run
MaxFrames == 3
\* number of threads which use the tape store
MaxThreads == 2
\* number of stores made by newStore over a run
MaxStores == 2
\* number of tapes made by newTape over a run
MaxTapes == 3
\* number of frames a thread opens on its tape in multi-thread mode
MaxEvals == 2

\* ------------------------------------------------------------------------
\* float64 as exact rationals

Abs(n) == IF n < 0 THEN -n ELSE n

RECURSIVE GCD(_, _)
GCD(a, b) == IF b = 0 THEN a ELSE GCD(b, a % b)

NaN == <<0, 0>>

Rat(n, d) ==
    IF d = 0 THEN NaN
    ELSE LET g == GCD(Abs(n), Abs(d))
             s == IF d < 0 THEN -1 ELSE 1
         IN  <<(s * n) \div g, (s * d) \div g>>

R(i) == <<i, 1>>

IsNaN(a) == a[2] = 0

RNeg(a) == IF IsNaN(a) THEN NaN ELSE <<-a[1], a[2]>>

RAdd(a, b) ==
    IF IsNaN(a) \/ IsNaN(b) THEN NaN
    ELSE Rat(a[1] * b[2] + b[1] * a[2], a[2] * b[2])

RSub(a, b) ==
    IF IsNaN(a) \/ IsNaN(b) THEN NaN
    ELSE Rat(a[1] * b[2] - b[1] * a[2], a[2] * b[2])

RMul(a, b) ==
    IF IsNaN(a) \/ IsNaN(b) THEN NaN
    ELSE Rat(a[1] * b[1], a[2] * b[2])

RDiv(a, b) ==
    IF IsNaN(a) \/ IsNaN(b) \/ b[1] = 0 THEN NaN
    ELSE Rat(a[1] * b[2], a[2] * b[1])

\* integer square root of a perfect square, -1 otherwise
ISqrt(n) ==
    IF n >= 0 /\ \E k \in 0..n : k * k = n
    THEN CHOOSE k \in 0..n : k * k = n
    ELSE -1

\* math.Sqrt, exact on the squares of rationals
RSqrt(a) ==
    IF IsNaN(a) \/ ISqrt(a[1]) < 0 \/ ISqrt(a[2]) < 0 THEN NaN
    ELSE <<ISqrt(a[1]), ISqrt(a[2])>>

\* math.Abs
RAbs(a) == IF IsNaN(a) THEN NaN ELSE <<Abs(a[1]), a[2]>>

\* The transcendental functions of package math are exact in the model at
\* the arguments where their value is rational, and the functions of the
\* catalogue below apply them there; elsewhere the value is not one the
\* model can hold.

\* math.Exp
RExp(a) == IF a = R(0) THEN R(1) ELSE NaN

\* math.Log
RLog(a) == IF a = R(1) THEN R(0) ELSE NaN

\* math.Sin
RSin(a) == IF a = R(0) THEN R(0) ELSE NaN

\* math.Cos
RCos(a) == IF a = R(0) THEN R(1) ELSE NaN

\* math.Tan
RTan(a) == IF a = R(0) THEN R(0) ELSE NaN

RECURSIVE IPow(_, _)
IPow(n, k) == IF k = 0 THEN 1 ELSE n * IPow(n, k - 1)

\* math.Pow, for a natural exponent or the base 1
RPow(a, b) ==
    IF IsNaN(a) \/ IsNaN(b) THEN NaN
    ELSE IF b[2] = 1 /\ b[1] >= 0 THEN Rat(IPow(a[1], b[1]), IPow(a[2], b[1]))
    ELSE IF a = R(1) THEN R(1)
    ELSE NaN

\* ------------------------------------------------------------------------
\* Record types and arithmetic opcodes

typDummy == 0
typAssignment == 1
typArithmetic == 2
typElemental == 3
typCall == 4

OpNeg == 0
OpAdd == 1
OpSub == 2
OpMul == 3
OpDiv == 4

\* ------------------------------------------------------------------------
\* Sequence helpers

At(s, i) == s[i + 1]

SetAt(s, i, v) == [s EXCEPT ![i + 1] = v]

Take(s, n) == SubSeq(s, 1, n)

Zeros(n) == [i \in 1..n |-> 0]

\* ------------------------------------------------------------------------
\* Memory: cells are addresses <<kind, block, index>>.
\*   <<"x", d, i>>  element i of the parameter vector of the frame at depth d
\*   <<"v", c, i>>  element i of the backing array of capacity c of tape.values
\*   <<"a", r, i>>  i-th formal parameter of the method called at record r

Store(m, a, v) == [k \in DOMAIN m \cup {a} |-> IF k = a THEN v ELSE m[k]]

\* address of tape.values[i]
ValAddr(s, i) == <<"v", s.values.cap, i + 1>>

\* tape.values[i]
ValAt(s, i) == s.mem[ValAddr(s, i)]

\* ------------------------------------------------------------------------
\* The tape.  The operators below take and return a record s holding the
\* fields of the tape (records, places, values, elementals, cstack, adj,
\* adv), the memory (mem), the registry of elementals (reg), the value
\* returned by the last primitive (ret) and the panic raised, if any.
\* tape.values is a Go slice: its length and the capacity of its backing
\* array; appending to a full slice moves the contents to a new array.

Rec(typ, op, p, v) == [typ |-> typ, op |-> op, p |-> p, v |-> v]

Top(s) == s.cstack[Len(s.cstack)]

Panic(s, msg) == [s EXCEPT !.panic = msg]

\* tape.values = append(tape.values, v)
AppendValue(s, v) ==
    LET vs == s.values
        grow == vs.len = vs.cap
        ncap == IF grow THEN (IF vs.cap = 0 THEN 1 ELSE 2 * vs.cap) ELSE vs.cap
        moved == {<<"v", ncap, i>> : i \in 1..vs.len}
        m1 == IF grow
              THEN [k \in DOMAIN s.mem \cup moved |->
                       IF k \in moved THEN s.mem[<<"v", vs.cap, k[3]>>]
                       ELSE s.mem[k]]
              ELSE s.mem
    IN  [s EXCEPT !.values = [len |-> vs.len + 1, cap |-> ncap],
                  !.mem = Store(m1, <<"v", ncap, vs.len + 1>>, v)]

RECURSIVE AppendValues(_, _)
AppendValues(s, vs) ==
    IF vs = <<>> THEN s ELSE AppendValues(AppendValue(s, Head(vs)), Tail(vs))

Value(s, v) ==
    LET s1 == AppendValue(s, v)
    IN  [s1 EXCEPT !.ret = ValAddr(s1, s1.values.len - 1)]

push(s, n) ==
    [s EXCEPT !.cstack = Append(@, [n |-> n,
                                    r |-> Len(s.records),
                                    p |-> Len(s.places),
                                    v |-> s.values.len,
                                    e |-> Len(s.elementals)])]

register(s, x) == [s EXCEPT !.places = @ \o x]

\* a Setup which allocates no place for the returned value
SetupWithoutResult(s, x) == register(push(s, Len(x)), x)

\* x is the sequence of the addresses &x[0], &x[1], ...
Setup(s, x) ==
    LET s1 == push(s, Len(x))
        s2 == Value(s1, R(0))
    IN  register([s2 EXCEPT !.places = Append(@, s2.ret)], x)

Return(s, px) ==
    LET c == Top(s)
    IN  [s EXCEPT !.places = SetAt(@, c.p, px), !.ret = s.mem[px]]

ArithmeticRun(op, a) ==
    CASE op = OpNeg -> RNeg(a[1])
      [] op = OpAdd -> RAdd(a[1], a[2])
      [] op = OpSub -> RSub(a[1], a[2])
      [] op = OpMul -> RMul(a[1], a[2])
      [] op = OpDiv -> RDiv(a[1], a[2])

Arithmetic(s, op, px) ==
    LET s1 == Value(s, R(0))
        p == s1.ret
        r == Rec(typArithmetic, op, Len(s1.places), 0)
        s2 == [s1 EXCEPT !.places = (@ \o <<p>>) \o px,
                         !.records = Append(@, r)]
    IN  IF op \in {OpNeg, OpAdd, OpSub, OpMul, OpDiv}
        THEN [s2 EXCEPT !.mem = Store(@, p,
                            ArithmeticRun(op, [i \in 1..Len(px) |-> s2.mem[px[i]]])),
                        !.ret = p]
        ELSE Panic(s2, "bad opcode")

\* a run which reads each source when it writes its target
RECURSIVE RunInTurn(_, _, _)
RunInTurn(s, p, i) ==
    IF i = Len(p) THEN s
    ELSE RunInTurn(
            [s EXCEPT !.mem = Store(@, At(p, i),
                                    s.mem[At(s.places,
                                             Len(s.places) - Len(p) + i)])],
            p, i + 1)

\* *p[i] = tape.values[len(tape.values)-len(p)+i], for i, i+1, ...
RECURSIVE RunParallel(_, _, _)
RunParallel(s, p, i) ==
    IF i = Len(p) THEN s
    ELSE RunParallel(
            [s EXCEPT !.mem = Store(@, At(p, i),
                                    ValAt(s, s.values.len - Len(p) + i))],
            p, i + 1)

ParallelAssignment(s, ppx) ==
    LET k == Len(ppx) \div 2
        p == Take(ppx, k)
        r == Rec(typAssignment, k, Len(s.places), s.values.len)
        s1 == AppendValues(s, [i \in 1..Len(ppx) |-> s.mem[ppx[i]]])
        s2 == [s1 EXCEPT !.places = @ \o ppx, !.records = Append(@, r)]
    IN  RunParallel(s2, p, 0)

\* an Assignment which saves the value of the source
AssignmentSavesSource(s, p, px) ==
    LET r == Rec(typAssignment, 1, Len(s.places), s.values.len)
        s1 == AppendValue(s, s.mem[px])
        s2 == [s1 EXCEPT !.places = @ \o <<p, px>>, !.records = Append(@, r)]
    IN  [s2 EXCEPT !.mem = Store(@, p, s2.mem[px])]

Assignment(s, p, px) ==
    LET r == Rec(typAssignment, 1, Len(s.places), s.values.len)
        s1 == AppendValue(s, s.mem[p])
        s2 == [s1 EXCEPT !.places = @ \o <<p, px>>, !.records = Append(@, r)]
    IN  [s2 EXCEPT !.mem = Store(@, p, s2.mem[px])]

\* ------------------------------------------------------------------------
\* Elementals.  A function is identified by its name; the registry maps
\* it to the name of its gradient.

\* f(a...), for the elementals of the registry
ElementalRun(f, a) ==
    CASE f = "math.Sqrt" -> RSqrt(a[1])
      [] f = "math.Exp" -> RExp(a[1])
      [] f = "math.Log" -> RLog(a[1])
      [] f = "math.Pow" -> RPow(a[1], a[2])
      [] f = "math.Sin" -> RSin(a[1])
      [] f = "math.Cos" -> RCos(a[1])
      [] f = "math.Tan" -> RTan(a[1])
      [] f = "math.Abs" -> RAbs(a[1])
      [] f = "twoArgElemental" -> RMul(a[1], a[2])
      [] f = "threeArgElemental" -> RAdd(RAdd(a[1], a[2]), a[3])
      [] f = "variadicElemental" -> RSub(a[1], a[2])
      [] OTHER -> NaN

\* g(value, a...), the registered gradient functions
GradientRun(g, value, a) ==
    CASE g = "math.Sqrt" -> <<RDiv(<<1, 2>>, value)>>
      [] g = "math.Exp" -> <<value>>
      [] g = "math.Log" -> <<RDiv(R(1), a[1])>>
      [] g = "math.Pow" -> <<RMul(value, RLog(a[1]))>>
      [] g = "math.Sin" -> <<RCos(a[1])>>
      [] g = "math.Cos" -> <<RNeg(RSin(a[1]))>>
      [] g = "math.Tan" -> <<RAdd(R(1), RMul(value, value))>>
      [] g = "twoArgElemental" -> <<a[2], a[1]>>
      [] g = "threeArgElemental" -> <<R(1), R(1), R(1)>>
      [] g = "variadicElemental" -> <<R(1), R(-1)>>
      [] OTHER -> <<>>

\* the registrations of the init functions
InitElementals ==
    [f \in {"math.Sqrt", "math.Exp", "math.Log", "math.Pow", "math.Sin",
            "math.Cos", "math.Tan", "twoArgElemental", "threeArgElemental",
            "variadicElemental"} |-> f]

RegisterElemental(reg, f, g) ==
    [k \in DOMAIN reg \cup {f} |-> IF k = f THEN g ELSE reg[k]]

\* the second value returned by ElementalGradient
ElementalGradientOk(reg, f) == f \in DOMAIN reg

\* Elemental which looks the gradient up after it has logged the places
ElementalChecksLate(s, f, px) ==
    LET s1 == Value(s, R(0))
        p == s1.ret
        s2 == [s1 EXCEPT !.places = (@ \o <<p>>) \o px]
    IN  IF ~ElementalGradientOk(s.reg, f)
        THEN Panic(s2, "not an elemental")
        ELSE
        LET r == Rec(typElemental, Len(s1.elementals), Len(s1.places),
                     s1.values.len)
            e == [n |-> Len(px), g |-> s.reg[f]]
            s3 == AppendValues(s2, [i \in 1..Len(px) |-> s2.mem[px[i]]])
            s4 == [s3 EXCEPT !.elementals = Append(@, e),
                             !.records = Append(@, r)]
        IN  [s4 EXCEPT !.mem = Store(@, p,
                          ElementalRun(f, [i \in 1..Len(px) |-> s4.mem[px[i]]])),
                       !.ret = p]

\* an Elemental whose window of values starts at the cell of the result
ElementalWindowAtResult(s, f, px) ==
    LET s1 == Value(s, R(0))
        p == s1.ret
    IN  IF ~ElementalGradientOk(s.reg, f)
        THEN Panic(s1, "not an elemental")
        ELSE
        LET r == Rec(typElemental, Len(s1.elementals), Len(s1.places),
                     s.values.len)
            e == [n |-> Len(px), g |-> s.reg[f]]
            s2 == [s1 EXCEPT !.places = (@ \o <<p>>) \o px]
            s3 == AppendValues(s2, [i \in 1..Len(px) |-> s2.mem[px[i]]])
            s4 == [s3 EXCEPT !.elementals = Append(@, e),
                             !.records = Append(@, r)]
        IN  [s4 EXCEPT !.mem = Store(@, p,
                          ElementalRun(f, [i \in 1..Len(px) |-> s4.mem[px[i]]])),
                       !.ret = p]

Elemental(s, f, px) ==
    LET s1 == Value(s, R(0))
        p == s1.ret
    IN  IF ~ElementalGradientOk(s.reg, f)
        THEN Panic(s1, "not an elemental")
        ELSE
        LET r == Rec(typElemental, Len(s1.elementals), Len(s1.places),
                     s1.values.len)
            e == [n |-> Len(px), g |-> s.reg[f]]
            s2 == [s1 EXCEPT !.places = (@ \o <<p>>) \o px]
            s3 == AppendValues(s2, [i \in 1..Len(px) |-> s2.mem[px[i]]])
            s4 == [s3 EXCEPT !.elementals = Append(@, e),
                             !.records = Append(@, r)]
        IN  [s4 EXCEPT !.mem = Store(@, p,
                          ElementalRun(f, [i \in 1..Len(px) |-> s4.mem[px[i]]])),
                       !.ret = p]

\* ------------------------------------------------------------------------
\* Calling differentiated functions

Called(s) == At(s.records, Len(s.records) - 1).typ = typCall

RECURSIVE Values(_, _, _)
\* Value(0.) n times; the locations returned are appended to sides
Values(s, n, sides) ==
    IF n = 0 THEN [s EXCEPT !.ret = sides]
    ELSE LET s1 == Value(s, R(0)) IN Values(s1, n - 1, Append(sides, s1.ret))

\* ret is the slice tape.values[v0:] taken before the parallel assignment:
\* the backing array, the offset and the length
variadic(s, px) ==
    LET v0 == s.values.len
        s1 == Values(s, Len(px), <<>>)
        vararg == [cap |-> s1.values.cap, off |-> v0,
                   len |-> s1.values.len - v0]
        s2 == ParallelAssignment(s1, s1.ret \o px)
    IN  [s2 EXCEPT !.ret = vararg]

\* Call which appends a record that is not a call marker
CallEnterWithoutMarker(s, narg, px) ==
    LET s1 == IF narg < Len(px)
              THEN variadic(s, SubSeq(px, narg + 1, Len(px)))
              ELSE [s EXCEPT !.ret = [cap |-> 0, off |-> 0, len |-> 0]]
        icall == Len(s1.records)
    IN  [s1 EXCEPT !.places = @ \o Take(px, narg),
                   !.records = Append(@, Rec(typDummy, 0, 0, 0)),
                   !.ret = <<icall, s1.ret>>]

\* Call up to the invocation of f; ret is <<icall, vararg>>
CallEnter(s, narg, px) ==
    LET s1 == IF narg < Len(px)
              THEN variadic(s, SubSeq(px, narg + 1, Len(px)))
              ELSE [s EXCEPT !.ret = [cap |-> 0, off |-> 0, len |-> 0]]
        icall == Len(s1.records)
    IN  [s1 EXCEPT !.places = @ \o Take(px, narg),
                   !.records = Append(@, Rec(typCall, 0, 0, 0)),
                   !.ret = <<icall, s1.ret>>]

\* Call which leaves its marker on the tape after f has returned
CallExitKeepsMarker(s, icall) ==
    LET c == Top(s)
    IN  [s EXCEPT !.ret = At(s.places, c.p)]

\* Call after f has returned
CallExit(s, icall) ==
    LET c == Top(s)
    IN  [s EXCEPT !.records = SetAt(@, icall, [At(@, icall) EXCEPT !.typ = typDummy]),
                  !.ret = At(s.places, c.p)]

\* Enter which takes the actual parameters one place too low
EnterOffByOne(s, px) ==
    LET p0 == Len(s.places) - Len(px) - 1
    IN  ParallelAssignment(s, px \o SubSeq(s.places, p0 + 1, p0 + Len(px)))

Enter(s, px) ==
    LET p0 == Len(s.places) - Len(px)
    IN  ParallelAssignment(s, px \o SubSeq(s.places, p0 + 1, p0 + Len(px)))

\* a prologue which opens a frame in every method not invoked through Call
PrologueAlwaysSetup(s, name, px, x) ==
    IF Called(s) THEN Enter(s, px) ELSE Setup(s, x)

\* the statement rewrite puts at the start of the differentiated method
\* name: px are its float64 parameters and x the first parameter of an
\* Observe
Prologue(s, name, px, x) ==
    IF Called(s) THEN Enter(s, px)
    ELSE IF name = "Observe" THEN Setup(s, x)
    ELSE Panic(s, "called outside Observe")

\* ------------------------------------------------------------------------
\* Backward pass

\* adv[adj[i]]
Adv(s, i) == At(s.adv, At(s.adj, i))

SetAdv(s, i, a) == [s EXCEPT !.adv = SetAt(@, At(s.adj, i), a)]

AddAdv(s, i, a) == SetAdv(s, i, RAdd(Adv(s, i), a))

SubAdv(s, i, a) == SetAdv(s, i, RSub(Adv(s, i), a))

\* *places[i]
Deref(s, i) == s.mem[At(s.places, i)]

RECURSIVE BuildAdjoints(_, _, _)
\* the loop over the places of the frame; adjoints is the map from
\* locations to indices of adjoint values
BuildAdjoints(s, i, adjoints) ==
    IF i = Len(s.places) THEN s
    ELSE LET pl == At(s.places, i)
         IN  IF pl \in DOMAIN adjoints
             THEN BuildAdjoints([s EXCEPT !.adj = SetAt(@, i, adjoints[pl])],
                                i + 1, adjoints)
             ELSE LET j == Len(s.adv)
                  IN  BuildAdjoints([s EXCEPT !.adj = SetAt(@, i, j),
                                              !.adv = Append(@, R(0))],
                                    i + 1, Store(adjoints, pl, j))

\* index of the adjoint which backward sets to 1
SeedPlace(c) == 0

RECURSIVE RestoreValues(_, _, _)
RestoreValues(s, r, i) ==
    IF i = r.op THEN s
    ELSE RestoreValues(
            [s EXCEPT !.mem = Store(@, At(s.places, r.p + i), ValAt(s, r.v + i))],
            r, i + 1)

RECURSIVE SaveAdjoints(_, _, _)
\* a[i] = adv[adj[r.p+i]], a being values[r.v : r.v+r.op]
SaveAdjoints(s, r, i) ==
    IF i = r.op THEN s
    ELSE SaveAdjoints(
            [s EXCEPT !.mem = Store(@, ValAddr(s, r.v + i), Adv(s, r.p + i))],
            r, i + 1)

RECURSIVE ClearAdjoints(_, _, _)
ClearAdjoints(s, r, i) ==
    IF i = r.op THEN s
    ELSE ClearAdjoints(SetAdv(s, r.p + i, R(0)), r, i + 1)

RECURSIVE AddAdjoints(_, _, _)
AddAdjoints(s, r, i) ==
    IF i = r.op THEN s
    ELSE AddAdjoints(AddAdv(s, r.p + r.op + i, ValAt(s, r.v + i)), r, i + 1)

\* a backward pass which leaves the cell of a single assignment as it is
BackAssignmentKeepsValue(s, r) ==
    IF r.op = 1
    THEN LET a == Adv(s, r.p)
         IN  AddAdv(SetAdv(s, r.p, R(0)), r.p + 1, a)
    ELSE AddAdjoints(
            ClearAdjoints(
               SaveAdjoints(RestoreValues(s, r, 0), r, 0), r, 0), r, 0)

BackAssignment(s, r) ==
    IF r.op = 1
    THEN LET s1 == [s EXCEPT !.mem = Store(@, At(s.places, r.p), ValAt(s, r.v))]
             a == Adv(s1, r.p)
         IN  AddAdv(SetAdv(s1, r.p, R(0)), r.p + 1, a)
    ELSE AddAdjoints(
            ClearAdjoints(
               SaveAdjoints(RestoreValues(s, r, 0), r, 0), r, 0), r, 0)

\* an Arithmetic OpMul which assigns the adjoints of its operands
BackArithmeticAssigns(s, r) ==
    LET a == Adv(s, r.p)
    IN  CASE r.op = OpNeg -> SubAdv(s, r.p + 1, a)
          [] r.op = OpAdd -> AddAdv(AddAdv(s, r.p + 1, a), r.p + 2, a)
          [] r.op = OpSub -> SubAdv(AddAdv(s, r.p + 1, a), r.p + 2, a)
          [] r.op = OpMul ->
                LET ax == RMul(a, Deref(s, r.p + 2))
                    ay == RMul(a, Deref(s, r.p + 1))
                IN  SetAdv(SetAdv(s, r.p + 1, ax), r.p + 2, ay)
          [] r.op = OpDiv ->
                LET ax == RDiv(a, Deref(s, r.p + 2))
                    ay == RMul(RNeg(ax), Deref(s, r.p))
                IN  AddAdv(AddAdv(s, r.p + 1, ax), r.p + 2, ay)
          [] OTHER -> Panic(s, "bad opcode")

BackArithmetic(s, r) ==
    LET a == Adv(s, r.p)
    IN  CASE r.op = OpNeg -> SubAdv(s, r.p + 1, a)
          [] r.op = OpAdd -> AddAdv(AddAdv(s, r.p + 1, a), r.p + 2, a)
          [] r.op = OpSub -> SubAdv(AddAdv(s, r.p + 1, a), r.p + 2, a)
          [] r.op = OpMul ->
                LET ax == RMul(a, Deref(s, r.p + 2))
                    ay == RMul(a, Deref(s, r.p + 1))
                IN  AddAdv(AddAdv(s, r.p + 1, ax), r.p + 2, ay)
          [] r.op = OpDiv ->
                LET ax == RDiv(a, Deref(s, r.p + 2))
                    ay == RMul(RNeg(ax), Deref(s, r.p))
                IN  AddAdv(AddAdv(s, r.p + 1, ax), r.p + 2, ay)
          [] OTHER -> Panic(s, "bad opcode")

RECURSIVE AddPartials(_, _, _, _, _)
\* adv[adj[r.p+1+i]] += a * d[i], for i, i+1, ... below n
AddPartials(s, r, a, d, i) ==
    IF i = At(s.elementals, r.op).n THEN s
    ELSE IF i >= Len(d) THEN Panic(s, "index out of range")
    ELSE AddPartials(AddAdv(s, r.p + 1 + i, RMul(a, At(d, i))), r, a, d, i + 1)

BackElemental(s, r) ==
    LET a == Adv(s, r.p)
        e == At(s.elementals, r.op)
        d == GradientRun(e.g, Deref(s, r.p),
                         [i \in 1..e.n |-> ValAt(s, r.v + i - 1)])
    IN  AddPartials(s, r, a, d, 0)

BackRecord(s, r) ==
    CASE r.typ = typDummy -> s
      [] r.typ = typAssignment -> BackAssignment(s, r)
      [] r.typ = typArithmetic -> BackArithmetic(s, r)
      [] r.typ = typElemental -> BackElemental(s, r)
      [] OTHER -> Panic(s, "bad type")

RECURSIVE BackRecords(_, _, _)
\* the loop over the records, from ir down to bottom
BackRecords(s, ir, bottom) ==
    IF ir = bottom \/ s.panic # "" THEN s
    ELSE BackRecords(BackRecord([s EXCEPT !.walk = Append(@, ir - 1)],
                                At(s.records, ir - 1)),
                     ir - 1, bottom)

\* the tape when the loop over the records starts: adj is as long as
\* places, the adjoint index of the frame is built and one adjoint is 1
Seeded(s) ==
    LET c == Top(s)
        s1 == IF Len(s.adj) < Len(s.places)
              THEN [s EXCEPT !.adj = @ \o Zeros(Len(s.places) - Len(s.adj))]
              ELSE s
        s2 == BuildAdjoints(s1, c.p, <<>>)
    IN  SetAdv(s2, SeedPlace(c), R(1))

backward(s) ==
    IF Len(s.cstack) = 0 THEN Panic(s, "index out of range")
    ELSE LET s3 == [Seeded(s) EXCEPT !.walk = <<>>]
         IN  BackRecords(s3, Len(s3.records), Top(s).r)

\* partials which reads the adjoints from the result slot on
partialsFromResultSlot(s) ==
    LET c == Top(s)
    IN  [s EXCEPT !.ret = [i \in 1..c.n |-> Adv(s, c.p + i - 1)]]

partials(s) ==
    LET c == Top(s)
    IN  [s EXCEPT !.ret = [i \in 1..c.n |-> Adv(s, c.p + i)]]

\* Pop which returns at once when there is no frame
PopWithoutFrame(s) ==
    IF Len(s.cstack) = 0 THEN s
    ELSE
    LET c == Top(s)
    IN  [s EXCEPT !.records = Take(@, c.r),
                  !.places = Take(@, c.p),
                  !.values = [@ EXCEPT !.len = c.v],
                  !.elementals = Take(@, c.e),
                  !.cstack = Take(@, Len(@) - 1)]

\* Pop which leaves the values stored by the frame on the tape
PopKeepsValues(s) ==
    IF Len(s.cstack) = 0 THEN Panic(s, "index out of range")
    ELSE
    LET c == Top(s)
    IN  [s EXCEPT !.records = Take(@, c.r),
                  !.places = Take(@, c.p),
                  !.elementals = Take(@, c.e),
                  !.cstack = Take(@, Len(@) - 1)]

Pop(s) ==
    IF Len(s.cstack) = 0 THEN Panic(s, "index out of range")
    ELSE
    LET c == Top(s)
    IN  [s EXCEPT !.records = Take(@, c.r),
                  !.places = Take(@, c.p),
                  !.values = [@ EXCEPT !.len = c.v],
                  !.elementals = Take(@, c.e),
                  !.cstack = Take(@, Len(@) - 1)]

Gradient(s) ==
    LET s1 == backward(s)
    IN  IF s1.panic # "" THEN s1
        ELSE LET s2 == partials(s1)
             IN  [Pop(s2) EXCEPT !.ret = s2.ret]

\* ------------------------------------------------------------------------
\* Differentiated functions.  A function is a sequence of calls of the tape
\* primitives; an operand is the index of a location among those known to
\* the function: its parameters &x[0], &x[1], ... first, then the location
\* returned by each Value, Arithmetic, Elemental and Call and the formal
\* parameters bound by each Enter, in the order of execution.

Ins(k, op, f, a, v) ==
    [k |-> k, op |-> op, f |-> f, a |-> a, v |-> v, g |-> ""]

IValue(v) == Ins("Value", 0, "", <<>>, v)
IArithmetic(op, a) == Ins("Arithmetic", op, "", a, R(0))
IAssignment(p, px) == Ins("Assignment", 0, "", <<p, px>>, R(0))
IParallel(ppx) == Ins("ParallelAssignment", 0, "", ppx, R(0))
IElemental(f, a) == Ins("Elemental", 0, f, a, R(0))
ICall(narg, a) == Ins("Call", narg, "", a, R(0))
IEnter(n) == Ins("Enter", n, "", <<>>, R(0))
IReturn(px) == Ins("Return", 0, "", <<px>>, R(0))
ICallExit == Ins("CallExit", 0, "", <<>>, R(0))
IPrologue(name, n, x) == Ins("Prologue", n, name, x, R(0))
IRegister(f, g) ==
    [Ins("RegisterElemental", 0, f, <<>>, R(0)) EXCEPT !.g = g]

\* the primitives of a function of n parameters without its Return, the
\* places they make numbered k further in env
Shifted(body, n, k) ==
    [i \in 1..(Len(body) - 1) |->
        [body[i] EXCEPT !.a = [j \in DOMAIN @ |->
                                  IF @[j] > n THEN @[j] + k ELSE @[j]]]]

\* a * f(x) + b * g(x) for functions f and g of n parameters with bodies
\* bf and bg: both are evaluated, then Value(a), Value(b), two Arithmetic
\* OpMul and one Arithmetic OpAdd on the results
Linear(a, b, bf, bg, n) ==
    LET kf == Len(bf) - 1
        rf == bf[Len(bf)].a[1]
        rg == IF bg[Len(bg)].a[1] > n THEN bg[Len(bg)].a[1] + kf
              ELSE bg[Len(bg)].a[1]
        base == n + kf + Len(bg) - 1
    IN  Shifted(bf, n, 0) \o Shifted(bg, n, kf) \o
        <<IValue(a), IValue(b),
          IArithmetic(OpMul, <<base + 1, rf>>),
          IArithmetic(OpMul, <<base + 2, rg>>),
          IArithmetic(OpAdd, <<base + 3, base + 4>>),
          IReturn(base + 5)>>

\* the functions of TestPrimitive, TestComposite, TestAssignment,
\* TestElemental and TestCall which the model can evaluate exactly (with
\* math.Sqrt where the tests compose math.Sin), each returning its result
\* through Return; then the same functions with the called method written
\* in place of the Call, and a method of two parameters which is not
\* symmetric in them, and a parallel assignment which swaps two parameters;
\* the elementals registered by init of package ad; a function without
\* parameters; a method which calls a method; math.Abs, which has no
\* registered gradient, alone and after two registrations of a gradient
\* for it (those init registers for math.Log and then for math.Exp); a
\* linear combination of a product and a quotient; a parallel assignment
\* which rotates three parameters, and the function it is followed by; a
\* product whose operands are assigned to afterwards, one of them twice;
\* math.Pow of a product; the generated methods Observe and Square
\* invoked through Call, and Square called without Call
Body(name) ==
    CASE name = "x" ->
            <<IReturn(1)>>
      [] name = "x = y" ->
            <<IValue(R(0)), IAssignment(2, 1), IReturn(2)>>
      [] name = "x = x" ->
            <<IAssignment(1, 1), IReturn(1)>>
      [] name = "-x" ->
            <<IArithmetic(OpNeg, <<1>>), IReturn(2)>>
      [] name = "x + y" ->
            <<IArithmetic(OpAdd, <<1, 2>>), IReturn(3)>>
      [] name = "x + x" ->
            <<IArithmetic(OpAdd, <<1, 1>>), IReturn(2)>>
      [] name = "x - z" ->
            <<IArithmetic(OpSub, <<1, 2>>), IReturn(3)>>
      [] name = "x - x" ->
            <<IArithmetic(OpSub, <<1, 1>>), IReturn(2)>>
      [] name = "x * y" ->
            <<IArithmetic(OpMul, <<1, 2>>), IReturn(3)>>
      [] name = "x * x" ->
            <<IArithmetic(OpMul, <<1, 1>>), IReturn(2)>>
      [] name = "x / y" ->
            <<IArithmetic(OpDiv, <<1, 2>>), IReturn(3)>>
      [] name = "x / x" ->
            <<IArithmetic(OpDiv, <<1, 1>>), IReturn(2)>>
      [] name = "sqrt(x)" ->
            <<IElemental("math.Sqrt", <<1>>), IReturn(2)>>
      [] name = "x * x + y * y" ->
            <<IArithmetic(OpMul, <<1, 1>>), IArithmetic(OpMul, <<2, 2>>),
              IArithmetic(OpAdd, <<3, 4>>), IReturn(5)>>
      [] name = "(x + y) * (x + y)" ->
            <<IArithmetic(OpAdd, <<1, 2>>), IArithmetic(OpAdd, <<1, 2>>),
              IArithmetic(OpMul, <<3, 4>>), IReturn(5)>>
      [] name = "sqrt(x * y)" ->
            <<IArithmetic(OpMul, <<1, 2>>), IElemental("math.Sqrt", <<3>>),
              IReturn(4)>>
      [] name = "z = sqrt(x * y); v1 = z" ->
            <<IValue(R(0)), IArithmetic(OpMul, <<1, 2>>),
              IElemental("math.Sqrt", <<4>>), IAssignment(3, 5), IReturn(3)>>
      [] name = "x = 2.; z = x * x" ->
            <<IValue(R(2)), IAssignment(1, 2), IArithmetic(OpMul, <<1, 1>>),
              IReturn(3)>>
      [] name = "x = y; x + y" ->
            <<IAssignment(1, 2), IArithmetic(OpAdd, <<1, 2>>), IReturn(3)>>
      [] name = "x = x; z = x * x" ->
            <<IAssignment(1, 1), IArithmetic(OpMul, <<1, 1>>), IReturn(2)>>
      [] name = "x, y = y, x; x / y" ->
            <<IParallel(<<1, 2, 2, 1>>), IArithmetic(OpDiv, <<1, 2>>),
              IReturn(3)>>
      [] name = "twoArgElemental(x, y)" ->
            <<IElemental("twoArgElemental", <<1, 2>>), IReturn(3)>>
      [] name = "threeArgElemental(x, y, t)" ->
            <<IElemental("threeArgElemental", <<1, 2, 3>>), IReturn(4)>>
      [] name = "variadicElemental(x, y)" ->
            <<IElemental("variadicElemental", <<1, 2>>), IReturn(3)>>
      [] name = "(x -> x)(x)" ->
            <<ICall(1, <<1>>), IEnter(1), IReturn(2), ICallExit, IReturn(3)>>
      [] name = "(x -> x * x)(x)" ->
            <<ICall(1, <<1>>), IEnter(1), IArithmetic(OpMul, <<2, 2>>),
              IReturn(3), ICallExit, IReturn(4)>>
      [] name = "y = (x -> x * x)(x)" ->
            <<IValue(R(0)), ICall(1, <<1>>), IEnter(1),
              IArithmetic(OpMul, <<3, 3>>), IReturn(4), ICallExit,
              IAssignment(2, 5), IReturn(2)>>
      [] name = "(x, y -> x + y)(x, y)" ->
            <<ICall(2, <<1, 2>>), IEnter(2), IArithmetic(OpAdd, <<3, 4>>),
              IReturn(5), ICallExit, IReturn(6)>>
      [] name = "(a, b -> a / b)(x, y)" ->
            <<ICall(2, <<1, 2>>), IEnter(2), IArithmetic(OpDiv, <<3, 4>>),
              IReturn(5), ICallExit, IReturn(6)>>
      [] name = "(xs... -> xs[0] * xs[1])(x, y)" ->
            <<ICall(0, <<1, 2>>), IEnter(0), IArithmetic(OpMul, <<3, 4>>),
              IReturn(5), ICallExit, IReturn(6)>>
      [] name = "x * y + (xs... -> xs[0] * xs[1])(x, y)" ->
            <<IArithmetic(OpMul, <<1, 2>>), ICall(0, <<1, 2>>), IEnter(0),
              IArithmetic(OpMul, <<4, 5>>), IReturn(6), ICallExit,
              IArithmetic(OpAdd, <<3, 7>>), IReturn(8)>>
      [] name = "(a, xs... -> a * xs[0])(x, y)" ->
            <<ICall(1, <<1, 2>>), IEnter(1), IArithmetic(OpMul, <<3, 4>>),
              IReturn(5), ICallExit, IReturn(6)>>
      [] name = "(x -> x * x)(x) * y" ->
            <<ICall(1, <<1>>), IEnter(1), IArithmetic(OpMul, <<3, 3>>),
              IReturn(4), ICallExit, IArithmetic(OpMul, <<5, 2>>),
              IReturn(6)>>
      [] name = "x * x * y" ->
            <<IArithmetic(OpMul, <<1, 1>>), IArithmetic(OpMul, <<3, 2>>),
              IReturn(4)>>
      [] name = "y = x * x" ->
            <<IValue(R(0)), IArithmetic(OpMul, <<1, 1>>), IAssignment(2, 3),
              IReturn(2)>>
      [] name = "x = y; x * y" ->
            <<IAssignment(1, 2), IArithmetic(OpMul, <<1, 2>>), IReturn(3)>>
      [] name = "(px, py -> *px = *py)(&x, &y); x + y" ->
            <<ICall(0, <<>>), IAssignment(1, 2), ICallExit,
              IArithmetic(OpAdd, <<1, 2>>), IReturn(4)>>
      [] name = "(px, py -> *px = *py)(&x, &y); x * y" ->
            <<ICall(0, <<>>), IAssignment(1, 2), ICallExit,
              IArithmetic(OpMul, <<1, 2>>), IReturn(4)>>
      [] name = "exp(x)" ->
            <<IElemental("math.Exp", <<1>>), IReturn(2)>>
      [] name = "log(x)" ->
            <<IElemental("math.Log", <<1>>), IReturn(2)>>
      [] name = "pow(x, y)" ->
            <<IElemental("math.Pow", <<1, 2>>), IReturn(3)>>
      [] name = "(Observe: x -> x[0] * x[0])(x)" ->
            <<ICall(0, <<>>), IPrologue("Observe", 0, <<1>>),
              IArithmetic(OpMul, <<1, 1>>), IReturn(2), ICallExit,
              IReturn(3)>>
      [] name = "(Square: x -> x * x)(x)" ->
            <<ICall(1, <<1>>), IPrologue("Square", 1, <<>>),
              IArithmetic(OpMul, <<2, 2>>), IReturn(3), ICallExit,
              IReturn(4)>>
      [] name = "Square(x)" ->
            <<IPrologue("Square", 1, <<>>), IArithmetic(OpMul, <<2, 2>>),
              IReturn(3)>>
      [] name = "pow(x * x, y)" ->
            <<IArithmetic(OpMul, <<1, 1>>), IElemental("math.Pow", <<3, 2>>),
              IReturn(4)>>
      [] name = "sin(x)" ->
            <<IElemental("math.Sin", <<1>>), IReturn(2)>>
      [] name = "cos(x)" ->
            <<IElemental("math.Cos", <<1>>), IReturn(2)>>
      [] name = "tan(x)" ->
            <<IElemental("math.Tan", <<1>>), IReturn(2)>>
      [] name = "2." ->
            <<IValue(R(2)), IReturn(1)>>
      [] name = "(x -> (y -> y * y)(x))(x)" ->
            <<ICall(1, <<1>>), IEnter(1), ICall(1, <<2>>), IEnter(1),
              IArithmetic(OpMul, <<3, 3>>), IReturn(4), ICallExit,
              IReturn(5), ICallExit, IReturn(6)>>
      [] name = "abs(x)" ->
            <<IElemental("math.Abs", <<1>>), IReturn(2)>>
      [] name = "RegisterElemental(abs, log'); RegisterElemental(abs, exp'); abs(x)" ->
            <<IRegister("math.Abs", "math.Log"),
              IRegister("math.Abs", "math.Exp"),
              IElemental("math.Abs", <<1>>), IReturn(2)>>
      [] name = "z = x * y; x = 5.; y = x; x = z" ->
            <<IArithmetic(OpMul, <<1, 2>>), IValue(R(5)), IAssignment(1, 4),
              IAssignment(2, 1), IAssignment(1, 3), IReturn(3)>>
      [] name = "x * y - t" ->
            <<IArithmetic(OpMul, <<1, 2>>), IArithmetic(OpSub, <<4, 3>>),
              IReturn(5)>>
      [] name = "x, y, t = y, t, x; x * y - t" ->
            <<IParallel(<<1, 2, 3, 2, 3, 1>>), IArithmetic(OpMul, <<1, 2>>),
              IArithmetic(OpSub, <<4, 3>>), IReturn(5)>>
      [] name = "2. * (x * y) + 3. * (x / y)" ->
            Linear(R(2), R(3),
                   <<IArithmetic(OpMul, <<1, 2>>), IReturn(3)>>,
                   <<IArithmetic(OpDiv, <<1, 2>>), IReturn(3)>>, 2)

\* number of parameters of each function
NoParams == {"2."}

OneParam ==
    {"(Observe: x -> x[0] * x[0])(x)", "(Square: x -> x * x)(x)", "Square(x)",
     "exp(x)", "log(x)", "sin(x)", "cos(x)", "tan(x)", "abs(x)",
     "(x -> (y -> y * y)(x))(x)",
     "RegisterElemental(abs, log'); RegisterElemental(abs, exp'); abs(x)",
     "x", "x = y", "x = x", "-x", "y = x * x", "x + x", "x - x", "x * x", "x / x", "sqrt(x)",
     "x = 2.; z = x * x", "x = x; z = x * x", "(x -> x)(x)",
     "(x -> x * x)(x)", "y = (x -> x * x)(x)"}

TwoParams ==
    {"(xs... -> xs[0] * xs[1])(x, y)",
     "x * y + (xs... -> xs[0] * xs[1])(x, y)", "(a, xs... -> a * xs[0])(x, y)",
     "2. * (x * y) + 3. * (x / y)", "z = x * y; x = 5.; y = x; x = z",
     "pow(x, y)", "pow(x * x, y)", "x + y", "x - z", "x * y", "x / y", "x * x + y * y",
     "(x + y) * (x + y)", "sqrt(x * y)", "z = sqrt(x * y); v1 = z",
     "x = y; x + y", "x = y; x * y", "x * x * y",
     "x, y = y, x; x / y", "(a, b -> a / b)(x, y)",
     "(x -> x * x)(x) * y", "twoArgElemental(x, y)", "variadicElemental(x, y)",
     "(x, y -> x + y)(x, y)", "(px, py -> *px = *py)(&x, &y); x + y",
     "(px, py -> *px = *py)(&x, &y); x * y"}

ThreeParams ==
    {"threeArgElemental(x, y, t)", "x * y - t", "x, y, t = y, t, x; x * y - t"}

Functions == NoParams \cup OneParam \cup TwoParams \cup ThreeParams

NParams(name) ==
    IF name \in NoParams THEN 0
    ELSE IF name \in OneParam THEN 1 ELSE IF name \in TwoParams THEN 2 ELSE 3

\* the parameter vectors the functions are differentiated at
Inputs == {<<R(4)>>, <<R(9)>>, <<R(2), R(8)>>, <<R(1), R(2), R(3)>>}

\* the parameter vectors function f is differentiated at: for the
\* elementals of package math a vector at which their value and their
\* derivative are rational, for the method calling a method one vector
InputsOf(f) ==
    CASE f \in NoParams -> {<<>>}
      [] f \in {"(x -> (y -> y * y)(x))(x)", "(Observe: x -> x[0] * x[0])(x)",
                 "(Square: x -> x * x)(x)", "Square(x)"} -> {<<R(4)>>}
      [] f \in {"exp(x)", "sin(x)", "cos(x)", "tan(x)"} -> {<<R(0)>>}
      [] f = "log(x)" -> {<<R(1)>>}
      [] f \in {"pow(x, y)", "pow(x * x, y)"} -> {<<R(1), R(2)>>}
      [] f \in {"(xs... -> xs[0] * xs[1])(x, y)",
                 "x * y + (xs... -> xs[0] * xs[1])(x, y)",
                 "(a, xs... -> a * xs[0])(x, y)"} -> {<<R(2), R(8)>>}
      [] OTHER -> {x \in Inputs : Len(x) = NParams(f)}

\* ------------------------------------------------------------------------
\* Execution of a differentiated function.  e holds the tape and memory
\* (s), the locations known to the running function (env) and the Calls
\* which have not returned yet (calls), innermost last.

\* &x[0], &x[1], ... of the parameter vector of the frame at depth d
ParamAddrs(d, n) == [i \in 1..n |-> <<"x", d, i>>]

RECURSIVE StoreAll(_, _, _)
StoreAll(m, as, vs) ==
    IF as = <<>> THEN m
    ELSE StoreAll(Store(m, Head(as), Head(vs)), Tail(as), Tail(vs))

Operands(e, ins) == [i \in 1..Len(ins.a) |-> e.env[ins.a[i]]]

\* ddx: the caller's vector x, then Setup(x)
DoSetup(s, d, x) ==
    LET xa == ParamAddrs(d, Len(x))
    IN  [s |-> Setup([s EXCEPT !.mem = StoreAll(@, xa, x)], xa),
         env |-> xa,
         calls |-> <<>>]

DoValue(e, ins) ==
    LET s1 == Value(e.s, ins.v)
    IN  [e EXCEPT !.s = s1, !.env = Append(@, s1.ret)]

DoArithmetic(e, ins) ==
    LET s1 == Arithmetic(e.s, ins.op, Operands(e, ins))
    IN  [e EXCEPT !.s = s1, !.env = Append(@, s1.ret)]

DoAssignment(e, ins) ==
    [e EXCEPT !.s = Assignment(e.s, e.env[ins.a[1]], e.env[ins.a[2]])]

DoParallelAssignment(e, ins) ==
    [e EXCEPT !.s = ParallelAssignment(e.s, Operands(e, ins))]

DoElemental(e, ins) ==
    LET s1 == Elemental(e.s, ins.f, Operands(e, ins))
    IN  [e EXCEPT !.s = s1,
                  !.env = IF s1.panic = "" THEN Append(@, s1.ret) ELSE @]

DoCall(e, ins) ==
    LET s1 == CallEnter(e.s, ins.op, Operands(e, ins))
    IN  [e EXCEPT !.s = s1,
                  !.calls = Append(@, [icall |-> s1.ret[1],
                                       vararg |-> s1.ret[2]])]

\* &vararg[0], &vararg[1], ...: the elements of the slice the wrapped
\* closure passes on as the variadic argument
VarargCells(v) == [i \in 1..v.len |-> <<"v", v.cap, v.off + i>>]

\* the called method: its formal parameters are new variables holding the
\* values of the actual parameters; it starts with Enter on them.  The
\* elements of its variadic parameter are those of vararg
DoEnter(e, ins) ==
    LET n == ins.op
        icall == e.calls[Len(e.calls)].icall
        formals == [i \in 1..n |-> <<"a", icall, i>>]
        p0 == Len(e.s.places) - n
        actuals == [i \in 1..n |-> Deref(e.s, p0 + i - 1)]
        s1 == [e.s EXCEPT !.mem = StoreAll(@, formals, actuals)]
    IN  [e EXCEPT !.s = Enter(s1, formals),
                  !.env = @ \o formals
                            \o VarargCells(e.calls[Len(e.calls)].vararg)]

\* a generated method starts: its float64 parameters are new variables
\* holding the values passed, those of the actual parameters if it was
\* invoked through Call
DoPrologue(e, ins) ==
    LET n == ins.op
        icall == IF e.calls = <<>> THEN Len(e.s.records)
                 ELSE e.calls[Len(e.calls)].icall
        formals == [i \in 1..n |-> <<"a", icall, i>>]
        p0 == Len(e.s.places) - n
        actuals == [i \in 1..n |->
                       IF Called(e.s) THEN Deref(e.s, p0 + i - 1) ELSE R(0)]
        s1 == [e.s EXCEPT !.mem = StoreAll(@, formals, actuals)]
    IN  [e EXCEPT !.s = Prologue(s1, ins.f, formals, Operands(e, ins)),
                  !.env = @ \o formals]

DoReturn(e, ins) == [e EXCEPT !.s = Return(e.s, e.env[ins.a[1]])]

DoRegisterElemental(e, ins) ==
    [e EXCEPT !.s = [@ EXCEPT !.reg = RegisterElemental(@, ins.f, ins.g)]]

DoCallExit(e, ins) ==
    LET s1 == CallExit(e.s, e.calls[Len(e.calls)].icall)
    IN  [e EXCEPT !.s = s1,
                  !.env = Append(@, s1.ret),
                  !.calls = Take(@, Len(@) - 1)]

Do(e, ins) ==
    CASE ins.k = "Value" -> DoValue(e, ins)
      [] ins.k = "Arithmetic" -> DoArithmetic(e, ins)
      [] ins.k = "Assignment" -> DoAssignment(e, ins)
      [] ins.k = "ParallelAssignment" -> DoParallelAssignment(e, ins)
      [] ins.k = "Elemental" -> DoElemental(e, ins)
      [] ins.k = "Call" -> DoCall(e, ins)
      [] ins.k = "Enter" -> DoEnter(e, ins)
      [] ins.k = "Return" -> DoReturn(e, ins)
      [] ins.k = "CallExit" -> DoCallExit(e, ins)
      [] ins.k = "RegisterElemental" -> DoRegisterElemental(e, ins)
      [] ins.k = "Prologue" -> DoPrologue(e, ins)

RECURSIVE DoAll(_, _)
DoAll(e, body) ==
    IF body = <<>> \/ e.s.panic # "" THEN e
    ELSE DoAll(Do(e, Head(body)), Tail(body))

\* ddx(x, f) with a new frame at depth d: Setup(x); f(x); Gradient().
\* The tape after it; ret is the gradient
Ddx(s, d, x, body) == Gradient(DoAll(DoSetup(s, d, x), body).s)

\* ------------------------------------------------------------------------
\* State

VARIABLES
    tape,        \* the global tape
    mem,         \* the values of the locations
    elementals,  \* the registry of gradients of elementals
    panic,       \* the panic raised, "" if none
    frames,      \* the differentiated functions running, one per frame
    calls,       \* the Calls which have not returned yet
    nframes,     \* the number of frames opened so far
    result,      \* what the last Gradient or Pop returned and left behind
    tapes,       \* the global tapes: the store in use, 0 for none
    mtSafe,      \* the global mtSafe
    stores,      \* the stores made by newStore, by their number
    ntapes,      \* the number of tapes made by newTape
    threads,     \* the threads: where they are in get or drop, and their locals
    heap,        \* the tapes made by newTape which have been written, by number
    evals,       \* the evaluation of each thread in multi-thread mode
    sghmc        \* the sampler and the goroutine started by SgHMC.Sample

\* the variables of the tape
tvars == <<tape, mem, elementals, panic, frames, calls, nframes, result>>

\* the variables of the multi-threaded tape store
mtvars == <<tapes, mtSafe, stores, ntapes, threads>>

\* the variables of the evaluations of the threads
evars == <<heap, evals>>

vars == <<tape, mem, elementals, panic, frames, calls, nframes, result,
          tapes, mtSafe, stores, ntapes, threads, heap, evals, sghmc>>

NewTape ==
    [records |-> <<Rec(typDummy, 0, 0, 0)>>,
     places |-> <<>>,
     values |-> [len |-> 0, cap |-> 0],
     elementals |-> <<>>,
     cstack |-> <<>>,
     adj |-> <<>>,
     adv |-> <<>>]

\* the record the operators of the tape work on; walk is the sequence of
\* the values ir has taken in the loop of backward
Join(t, m, reg, pnc) ==
    [records |-> t.records, places |-> t.places, values |-> t.values,
     elementals |-> t.elementals, cstack |-> t.cstack,
     adj |-> t.adj, adv |-> t.adv,
     mem |-> m, reg |-> reg, ret |-> <<>>, panic |-> pnc, walk |-> <<>>]

TapeOf(s) ==
    [records |-> s.records, places |-> s.places, values |-> s.values,
     elementals |-> s.elementals, cstack |-> s.cstack,
     adj |-> s.adj, adv |-> s.adv]

S == Join(tape, mem, elementals, panic)

\* the lengths compared by shouldPop, and those of adj and adv
Lengths(t) ==
    [records |-> Len(t.records), places |-> Len(t.places),
     values |-> t.values.len, elementals |-> Len(t.elementals),
     cstack |-> Len(t.cstack), adj |-> Len(t.adj), adv |-> Len(t.adv)]

NoResult ==
    [op |-> "none", f |-> "", x |-> <<>>, g |-> <<>>, depth |-> 0,
     pre |-> Lengths(NewTape), post |-> Lengths(NewTape), xafter |-> <<>>]

\* no sampler: Sample has not been called
NoSampler ==
    [pc |-> "none", f |-> "", x |-> <<>>, L |-> 0, stop |-> FALSE,
     istep |-> 0, NAcc |-> 0, sent |-> 0, closed |-> 0, late |-> 0,
     given |-> 0, obs |-> 0, grads |-> 0, hist |-> <<>>,
     synced |-> FALSE, after |-> 0,
     panicking |-> "", recovered |-> "", d |-> 0, log |-> <<>>]

\* a thread which has not evaluated anything: no function (f), no
\* parameter vector (x), no frame opened (n); alone is the tape and memory
\* the thread has when it runs its evaluations with no other thread, for
\* the tape numbered tape
NoEval ==
    [f |-> "", x |-> <<>>, pc |-> 0, env |-> <<>>, calls |-> <<>>, n |-> 0,
     st |-> "none", g |-> <<>>, tape |-> 0,
     alone |-> Join(NewTape, <<>>, InitElementals, "")]

Init ==
    /\ tape = NewTape
    /\ mem = <<>>
    /\ elementals = InitElementals
    /\ panic = ""
    /\ frames = <<>>
    /\ calls = <<>>
    /\ nframes = 0
    /\ result = NoResult
    /\ tapes = 0
    /\ mtSafe = FALSE
    /\ stores = <<>>
    /\ ntapes = 0
    /\ threads = [t \in 1..MaxThreads |->
                     [pc |-> "idle", recv |-> 0, tape |-> 0, ok |-> FALSE,
                      held |-> 0, recd |-> {}]]
    /\ heap = <<>>
    /\ evals = [t \in 1..MaxThreads |-> NoEval]
    /\ sghmc = NoSampler

Depth == Len(frames)

Frame == frames[Depth]

\* the running function has primitives left to call
Running == Depth > 0 /\ Frame.pc <= Len(Body(Frame.f))

\* its next primitive
Cur == Body(Frame.f)[Frame.pc]

E == [s |-> S, env |-> Frame.env, calls |-> calls]

\* the primitives work on the one global tape, not through the store
Commit(s) ==
    /\ tape' = TapeOf(s)
    /\ mem' = s.mem
    /\ elementals' = s.reg
    /\ panic' = s.panic
    /\ UNCHANGED <<mtvars, evars, sghmc>>

\* the running function has called the primitive and is at e
Advance(e) ==
    /\ Commit(e.s)
    /\ frames' = [frames EXCEPT ![Depth] = [@ EXCEPT !.pc = @ + 1,
                                                     !.env = e.env]]
    /\ calls' = e.calls
    /\ UNCHANGED <<nframes, result>>

\* ------------------------------------------------------------------------
\* Actions

\* the function differentiated by the frames opened so far, "" if none
Suite ==
    IF Depth > 0 THEN Frame.f ELSE result.f

\* ddx opens a frame for function f at x, as runsuite does for each input
\* of a test case.  A frame nested in another one is opened by the
\* function running in the enclosing frame, for the same function.
SetupStep ==
    \E f \in Functions : \E x \in InputsOf(f) :
        /\ panic = ""
        /\ Suite \in {"", f}
        /\ Len(x) = NParams(f)
        /\ Len(tape.cstack) < MaxDepth
        /\ nframes < MaxFrames
        /\ Depth > 0 => (Running /\ ~Called(S))
        /\ LET e == DoSetup(S, Depth + 1, x)
           IN  /\ Commit(e.s)
               /\ frames' = Append(frames, [f |-> f, x |-> x, pc |-> 1,
                                            env |-> e.env,
                                            pre |-> Lengths(tape)])
        /\ nframes' = nframes + 1
        /\ UNCHANGED <<calls, result>>

ValueStep ==
    /\ panic = "" /\ Running /\ Cur.k = "Value"
    /\ Advance(DoValue(E, Cur))

ArithmeticStep ==
    /\ panic = "" /\ Running /\ Cur.k = "Arithmetic"
    /\ Advance(DoArithmetic(E, Cur))

AssignmentStep ==
    /\ panic = "" /\ Running /\ Cur.k = "Assignment"
    /\ Advance(DoAssignment(E, Cur))

ParallelAssignmentStep ==
    /\ panic = "" /\ Running /\ Cur.k = "ParallelAssignment"
    /\ Advance(DoParallelAssignment(E, Cur))

ElementalStep ==
    /\ panic = "" /\ Running /\ Cur.k = "Elemental"
    /\ Advance(DoElemental(E, Cur))

CallStep ==
    /\ panic = "" /\ Running /\ Cur.k = "Call"
    /\ Advance(DoCall(E, Cur))

EnterStep ==
    /\ panic = "" /\ Running /\ Cur.k = "Enter"
    /\ Called(S)
    /\ Advance(DoEnter(E, Cur))

ReturnStep ==
    /\ panic = "" /\ Running /\ Cur.k = "Return"
    /\ Advance(DoReturn(E, Cur))

CallExitStep ==
    /\ panic = "" /\ Running /\ Cur.k = "CallExit"
    /\ Advance(DoCallExit(E, Cur))

RegisterElementalStep ==
    /\ panic = "" /\ Running /\ Cur.k = "RegisterElemental"
    /\ Advance(DoRegisterElemental(E, Cur))

PrologueStep ==
    /\ panic = "" /\ Running /\ Cur.k = "Prologue"
    /\ Advance(DoPrologue(E, Cur))

\* what ddx or shouldPop sees after op
Outcome(op, s) ==
    [op |-> op, f |-> Frame.f, x |-> Frame.x, g |-> s.ret, depth |-> Depth,
     pre |-> Frame.pre, post |-> Lengths(TapeOf(s)),
     xafter |-> [i \in 1..Len(Frame.x) |-> s.mem[<<"x", Depth, i>>]]]

\* the caller of Gradient or Pop after the call: a call which panics does
\* not return, and the function of the frame is left where it was
Returned(op, s) ==
    IF s.panic = ""
    THEN /\ result' = Outcome(op, s)
         /\ frames' = Take(frames, Depth - 1)
    ELSE UNCHANGED <<result, frames>>

\* Gradient, after the function of the frame has returned or with no frame
GradientStep ==
    /\ panic = "" /\ ~Running
    /\ LET s1 == Gradient(S)
       IN  /\ Commit(s1)
           /\ Returned("Gradient", s1)
    /\ UNCHANGED <<calls, nframes>>

\* Pop, after the function of the frame has returned or with no frame
PopStep ==
    /\ panic = "" /\ ~Running
    /\ LET s1 == Pop(S)
       IN  /\ Commit(s1)
           /\ Returned("Pop", s1)
    /\ UNCHANGED <<calls, nframes>>

Next ==
    \/ SetupStep
    \/ ValueStep
    \/ ArithmeticStep
    \/ AssignmentStep
    \/ ParallelAssignmentStep
    \/ ElementalStep
    \/ CallStep
    \/ EnterStep
    \/ ReturnStep
    \/ CallExitStep
    \/ RegisterElementalStep
    \/ PrologueStep
    \/ GradientStep
    \/ PopStep

Spec == Init /\ [][Next]_vars

\* ------------------------------------------------------------------------
\* The multi-threaded tape store.  A thread is a goroutine, and its number
\* is its goid.  A store is a map from goids to tapes and its mutex
\* (holder: the thread which has locked it, 0 when unlocked); a tape is
\* known by its number, 0 for nil.  Each thread is at a statement of get
\* or drop (pc) with the receiver of the method (recv) and the locals tape
\* and ok, or at none ("idle"); held is the tape its last get returned, 0
\* after it has called drop, and recd the tapes get has returned to it.

Threads == 1..MaxThreads

newStore == [store |-> <<>>, holder |-> 0]

\* thread t executes a statement and goes to statement pc
Goto(t, pc) == [threads EXCEPT ![t].pc = pc]

\* tapes = newStore(); mtSafe = true
MTSafeOn(t) ==
    /\ threads[t].pc = "idle"
    /\ Len(stores) < MaxStores
    /\ stores' = Append(stores, newStore)
    /\ tapes' = Len(stores) + 1
    /\ mtSafe' = TRUE
    /\ UNCHANGED <<tvars, evars, ntapes, threads>>

\* tapes = newStore()
clear(t) ==
    /\ mtSafe
    /\ threads[t].pc = "idle"
    /\ Len(stores) < MaxStores
    /\ stores' = Append(stores, newStore)
    /\ tapes' = Len(stores) + 1
    /\ UNCHANGED <<tvars, evars, mtSafe, ntapes, threads>>

\* the threads which are in get and may still call newTape
MayAllocate ==
    {u \in Threads :
        threads[u].pc \in {"get:Lock", "get:lookup", "get:Unlock", "get:newTape"}}

\* tapes.get() is called: the receiver is the store tapes points to
getCall(t) ==
    /\ mtSafe
    /\ threads[t].pc = "idle"
    /\ ntapes + Cardinality(MayAllocate) < MaxTapes
    /\ threads' = [threads EXCEPT ![t].pc = "get:Lock", ![t].recv = tapes,
                                  ![t].tape = 0, ![t].ok = FALSE]
    /\ UNCHANGED <<tvars, evars, tapes, mtSafe, stores, ntapes>>

\* the statement after each tapes.Lock()
AfterLock(pc) ==
    CASE pc = "get:Lock" -> "get:lookup"
      [] pc = "get:Lock2" -> "get:insert"
      [] pc = "drop:Lock" -> "drop:delete"

\* tapes.Lock(), of get and of drop
Lock(t) ==
    /\ threads[t].pc \in {"get:Lock", "get:Lock2", "drop:Lock"}
    /\ stores[threads[t].recv].holder = 0
    /\ stores' = [stores EXCEPT ![threads[t].recv].holder = t]
    /\ threads' = Goto(t, AfterLock(threads[t].pc))
    /\ UNCHANGED <<tvars, evars, tapes, mtSafe, ntapes>>

\* a lookup which takes any tape of the map, whatever the goroutine
getLookupAnyKey(t) ==
    /\ threads[t].pc = "get:lookup"
    /\ LET m == stores[threads[t].recv].store
           ok == DOMAIN m # {}
       IN  threads' = [threads EXCEPT ![t].pc = "get:Unlock",
                                      ![t].ok = ok,
                                      ![t].tape = IF ok
                                                  THEN m[CHOOSE k \in DOMAIN m : TRUE]
                                                  ELSE 0]
    /\ UNCHANGED <<tvars, evars, tapes, mtSafe, stores, ntapes>>

\* tape, ok := tapes.store[id]
getLookup(t) ==
    /\ threads[t].pc = "get:lookup"
    /\ LET m == stores[threads[t].recv].store
           ok == t \in DOMAIN m
       IN  threads' = [threads EXCEPT ![t].pc = "get:Unlock",
                                      ![t].ok = ok,
                                      ![t].tape = IF ok THEN m[t] ELSE 0]
    /\ UNCHANGED <<tvars, evars, tapes, mtSafe, stores, ntapes>>

\* the statement after each tapes.Unlock()
AfterUnlock(th) ==
    CASE th.pc = "get:Unlock" -> IF th.ok THEN "get:return" ELSE "get:newTape"
      [] th.pc = "get:Unlock2" -> "get:return"
      [] th.pc = "drop:Unlock" -> "idle"

\* tapes.Unlock(), of get and of drop
Unlock(t) ==
    /\ threads[t].pc \in {"get:Unlock", "get:Unlock2", "drop:Unlock"}
    /\ stores' = [stores EXCEPT ![threads[t].recv].holder = 0]
    /\ threads' = Goto(t, AfterUnlock(threads[t]))
    /\ UNCHANGED <<tvars, evars, tapes, mtSafe, ntapes>>

\* tape = newTape()
getNewTape(t) ==
    /\ threads[t].pc = "get:newTape"
    /\ ntapes' = ntapes + 1
    /\ threads' = [threads EXCEPT ![t].pc = "get:Lock2", ![t].tape = ntapes + 1]
    /\ UNCHANGED <<tvars, evars, tapes, mtSafe, stores>>

\* tapes.store[id] = tape
getInsert(t) ==
    /\ threads[t].pc = "get:insert"
    /\ LET m == stores[threads[t].recv].store
       IN  stores' = [stores EXCEPT ![threads[t].recv].store =
                        [k \in DOMAIN m \cup {t} |->
                            IF k = t THEN threads[t].tape ELSE m[k]]]
    /\ threads' = Goto(t, "get:Unlock2")
    /\ UNCHANGED <<tvars, evars, tapes, mtSafe, ntapes>>

\* return tape
getReturn(t) ==
    /\ threads[t].pc = "get:return"
    /\ threads' = [threads EXCEPT ![t].pc = "idle",
                                  ![t].held = threads[t].tape,
                                  ![t].recd = @ \cup {threads[t].tape}]
    /\ UNCHANGED <<tvars, evars, tapes, mtSafe, stores, ntapes>>

\* tapes.drop() is called
dropCall(t) ==
    /\ mtSafe
    /\ threads[t].pc = "idle"
    /\ threads' = [threads EXCEPT ![t].pc = "drop:Lock", ![t].recv = tapes,
                                  ![t].held = 0]
    /\ UNCHANGED <<tvars, evars, tapes, mtSafe, stores, ntapes>>

\* delete(tapes.store, id)
dropDelete(t) ==
    /\ threads[t].pc = "drop:delete"
    /\ LET m == stores[threads[t].recv].store
       IN  stores' = [stores EXCEPT ![threads[t].recv].store =
                        [k \in DOMAIN m \ {t} |-> m[k]]]
    /\ threads' = Goto(t, "drop:Unlock")
    /\ UNCHANGED <<tvars, evars, tapes, mtSafe, ntapes>>

MTNext ==
    \/ \E t \in Threads : clear(t) /\ UNCHANGED sghmc
    \/ \E t \in Threads : MTSafeOn(t) /\ UNCHANGED sghmc
    \/ \E t \in Threads : getCall(t) /\ UNCHANGED sghmc
    \/ \E t \in Threads : Lock(t) /\ UNCHANGED sghmc
    \/ \E t \in Threads : getLookup(t) /\ UNCHANGED sghmc
    \/ \E t \in Threads : Unlock(t) /\ UNCHANGED sghmc
    \/ \E t \in Threads : getNewTape(t) /\ UNCHANGED sghmc
    \/ \E t \in Threads : getInsert(t) /\ UNCHANGED sghmc
    \/ \E t \in Threads : getReturn(t) /\ UNCHANGED sghmc
    \/ \E t \in Threads : dropCall(t) /\ UNCHANGED sghmc
    \/ \E t \in Threads : dropDelete(t) /\ UNCHANGED sghmc

MTSpec == Init /\ [][MTNext]_vars

\* ------------------------------------------------------------------------
\* Evaluations in multi-thread mode.  The primitives of a thread work on
\* the tape which get has returned to the thread (held); a tape has its
\* own records, places, values, elementals, frames and adjoints, and the
\* thread its own memory, kept in heap with the tape.  Each thread
\* differentiates one function, one frame after another.

\* the functions the threads differentiate
EvalFunctions == {"x * y", "x = y; x * y"}

\* main has called MTSafeOn before it starts the threads
EvalInit ==
    /\ tape = NewTape
    /\ mem = <<>>
    /\ elementals = InitElementals
    /\ panic = ""
    /\ frames = <<>>
    /\ calls = <<>>
    /\ nframes = 0
    /\ result = NoResult
    /\ tapes = 1
    /\ mtSafe = TRUE
    /\ stores = <<newStore>>
    /\ ntapes = 0
    /\ threads = [t \in 1..MaxThreads |->
                     [pc |-> "idle", recv |-> 0, tape |-> 0, ok |-> FALSE,
                      held |-> 0, recd |-> {}]]
    /\ heap = <<>>
    /\ evals = [t \in 1..MaxThreads |-> NoEval]
    /\ sghmc = NoSampler

\* the tape numbered id and the memory of its thread; newTape makes a tape
\* as init of tape.go leaves the global one
TapeAt(id) ==
    IF id \in DOMAIN heap THEN heap[id]
    ELSE Join(NewTape, <<>>, InitElementals, "")

\* the tape numbered id has become s
PutTape(id, s) ==
    [k \in DOMAIN heap \cup {id} |->
        IF k = id THEN [s EXCEPT !.ret = <<>>, !.walk = <<>>] ELSE heap[k]]

\* the tape the primitives of thread t work on
CurrentTape(t) == threads[t].held

\* the thread can call a primitive: it is not inside get or drop and has
\* a tape
OnTape(t) ==
    /\ threads[t].pc = "idle"
    /\ CurrentTape(t) # 0
    /\ TapeAt(CurrentTape(t)).panic = ""

\* the tape of thread t had it run alone, before its next primitive
Alone(t) ==
    IF evals[t].tape = CurrentTape(t)
    THEN [evals[t].alone EXCEPT !.ret = <<>>, !.walk = <<>>]
    ELSE Join(NewTape, <<>>, InitElementals, "")

\* a thread without a tape resolves its tape
EvalGet(t) ==
    /\ threads[t].held = 0
    /\ getCall(t)

\* the thread opens a frame: Setup(x) on its tape
EvalSetup(t) ==
    \E f \in EvalFunctions : \E x \in InputsOf(f) :
        /\ OnTape(t)
        /\ evals[t].st # "running"
        /\ evals[t].f \in {"", f}
        /\ evals[t].n < MaxEvals
        /\ LET id == CurrentTape(t)
               e == DoSetup(TapeAt(id), t, x)
               a == DoSetup(Alone(t), t, x)
           IN  /\ heap' = PutTape(id, e.s)
               /\ evals' = [evals EXCEPT ![t] =
                              [f |-> f, x |-> x, pc |-> 1, env |-> e.env,
                               calls |-> <<>>, n |-> evals[t].n + 1,
                               st |-> "running", g |-> <<>>, tape |-> id,
                               alone |-> a.s]]
        /\ UNCHANGED <<tvars, mtvars>>

\* the next primitive the function of thread t calls
EvalCur(t) == Body(evals[t].f)[evals[t].pc]

\* the function of thread t on its tape, and on the tape had it run alone
EvalE(t) ==
    [s |-> TapeAt(CurrentTape(t)), env |-> evals[t].env,
     calls |-> evals[t].calls]

AloneE(t) == [s |-> Alone(t), env |-> evals[t].env, calls |-> evals[t].calls]

\* the primitive has left e on the tape of the thread
EvalAdvance(t, e, a) ==
    /\ heap' = PutTape(CurrentTape(t), e.s)
    /\ evals' = [evals EXCEPT ![t].pc = @ + 1,
                              ![t].env = e.env,
                              ![t].calls = e.calls,
                              ![t].alone = a.s]

\* the function of the thread calls its next primitive
EvalStep(t) ==
    /\ OnTape(t)
    /\ evals[t].st = "running"
    /\ evals[t].pc <= Len(Body(evals[t].f))
    /\ EvalAdvance(t, Do(EvalE(t), EvalCur(t)), Do(AloneE(t), EvalCur(t)))
    /\ UNCHANGED <<tvars, mtvars>>

\* the function has returned: Gradient() on the tape of the thread
EvalGradient(t) ==
    /\ OnTape(t)
    /\ evals[t].st = "running"
    /\ evals[t].pc > Len(Body(evals[t].f))
    /\ LET id == CurrentTape(t)
           s1 == Gradient(TapeAt(id))
           a1 == Gradient(Alone(t))
       IN  /\ heap' = PutTape(id, s1)
           /\ evals' = [evals EXCEPT ![t].st = "done",
                                     ![t].g = s1.ret,
                                     ![t].alone = a1]
    /\ UNCHANGED <<tvars, mtvars>>

EvalNext ==
    \/ \E t \in Threads : EvalGet(t) /\ UNCHANGED sghmc
    \/ \E t \in Threads : Lock(t) /\ UNCHANGED sghmc
    \/ \E t \in Threads : getLookup(t) /\ UNCHANGED sghmc
    \/ \E t \in Threads : Unlock(t) /\ UNCHANGED sghmc
    \/ \E t \in Threads : getNewTape(t) /\ UNCHANGED sghmc
    \/ \E t \in Threads : getInsert(t) /\ UNCHANGED sghmc
    \/ \E t \in Threads : getReturn(t) /\ UNCHANGED sghmc
    \/ \E t \in Threads : EvalSetup(t) /\ UNCHANGED sghmc
    \/ \E t \in Threads : EvalStep(t) /\ UNCHANGED sghmc
    \/ \E t \in Threads : EvalGradient(t) /\ UNCHANGED sghmc

EvalSpec == EvalInit /\ [][EvalNext]_vars

\* ------------------------------------------------------------------------
\* SgHMC.Sample.  Sample starts one goroutine which defers DropTape, close
\* of the samples channel and a function calling recover, then loops: it
\* leaves the loop when it sees stop, calls m.Observe and model.Gradient L
\* times on its own tape, and sends x on samples.  The caller receives
\* the samples and sets stop.  x is kept as passed to Sample: the values
\* of the samples decide nothing here.

\* the thread of the goroutine
Goroutine == 1

\* the models sampled: one which evaluates, one whose Observe panics and
\* one whose Gradient panics
SgFunctions == {"x * y", "abs(x)", "pow(x, y)"}

\* the deferred calls in the order of their defer statements
DeferStatements == <<"DropTape", "close", "recover">>

\* deferred calls run last deferred first
DeferredFirstIn(d) == DeferStatements[d]

\* the d-th deferred call to run when the goroutine function ends
Deferred(d) == DeferStatements[Len(DeferStatements) + 1 - d]

\* the number of steps per sample when L is left 0
DefaultL == 10

\* L is taken as given
setDefaultsKeeps(l) == l

\* setDefaults: L after Sample has set the defaults
setDefaults(l) == IF l = 0 THEN DefaultL ELSE l

\* main has called MTSafeOn and Sample(m, x, samples) with L as given;
\* the goroutine is at the head of its loop
SgInit ==
    /\ tape = NewTape
    /\ mem = <<>>
    /\ elementals = InitElementals
    /\ panic = ""
    /\ frames = <<>>
    /\ calls = <<>>
    /\ nframes = 0
    /\ result = NoResult
    /\ tapes = 1
    /\ mtSafe = TRUE
    /\ stores = <<newStore>>
    /\ ntapes = 0
    /\ threads = [t \in 1..MaxThreads |->
                     [pc |-> "idle", recv |-> 0, tape |-> 0, ok |-> FALSE,
                      held |-> 0, recd |-> {}]]
    /\ heap = <<>>
    /\ evals = [t \in 1..MaxThreads |-> NoEval]
    /\ \E f \in SgFunctions : \E x \in InputsOf(f) : \E l \in 0..MaxEvals :
          sghmc = [NoSampler EXCEPT !.pc = "for", !.f = f, !.x = x,
                                    !.given = l, !.L = setDefaults(l)]

\* the goroutine function ends, by break or by a panic with message msg:
\* its deferred calls run
Ends(sg, msg) == [sg EXCEPT !.pc = "deferred", !.d = 1, !.panicking = msg]

\* a deferred call has returned: the next one runs, and after the last
\* one the goroutine exits
DeferredReturns(sg, call) ==
    [sg EXCEPT !.log = Append(@, call),
               !.d = @ + 1,
               !.pc = IF sg.d = Len(DeferStatements) THEN "exit"
                      ELSE "deferred"]

\* the caller sets stop
SgStop ==
    /\ sghmc.pc # "none"
    /\ ~sghmc.stop
    /\ sghmc' = [sghmc EXCEPT !.stop = TRUE]
    /\ UNCHANGED <<tvars, mtvars, heap, evals>>

\* if sghmc.stop { break }, and the head of the loop over istep.  stop is
\* read without synchronisation: a stop set by the caller may or may not
\* be seen, until the caller has received a sample after setting it (the
\* receive on the unbuffered channel comes before the end of the send)
SgFor ==
    /\ sghmc.pc = "for"
    /\ \/ /\ sghmc.stop
          /\ sghmc' = Ends(sghmc, "")
       \/ /\ ~(sghmc.stop /\ sghmc.synced)
          /\ sghmc.NAcc < MaxEvals
          /\ sghmc' = IF sghmc.L # 0
                      THEN [sghmc EXCEPT !.istep = 0, !.pc = "Observe"]
                      ELSE [sghmc EXCEPT !.istep = 0, !.NAcc = @ + 1,
                                         !.pc = "send"]
    /\ UNCHANGED <<tvars, mtvars, heap, evals>>

\* the first primitive of the goroutine resolves its tape
SgGet ==
    /\ sghmc.pc = "Observe"
    /\ threads[Goroutine].held = 0
    /\ getCall(Goroutine)
    /\ UNCHANGED sghmc

\* the tape of the goroutine
SgTape == TapeAt(CurrentTape(Goroutine))

\* m.Observe(x): Setup(x) and the body of the model
Observe == DoAll(DoSetup(SgTape, Goroutine, sghmc.x), Body(sghmc.f))

\* m.Observe(x) on the tape of the goroutine
SgObserve ==
    /\ sghmc.pc = "Observe"
    /\ OnTape(Goroutine)
    /\ heap' = PutTape(CurrentTape(Goroutine), Observe.s)
    /\ sghmc' = IF Observe.s.panic # "" THEN Ends(sghmc, Observe.s.panic)
                ELSE [sghmc EXCEPT !.pc = "Gradient", !.obs = @ + 1]
    /\ UNCHANGED <<tvars, mtvars, evals>>

\* model.Gradient(m), the update of x, and istep++
SgGradient ==
    /\ sghmc.pc = "Gradient"
    /\ OnTape(Goroutine)
    /\ LET s1 == Gradient(SgTape)
       IN  /\ heap' = PutTape(CurrentTape(Goroutine), s1)
           /\ sghmc' =
                 IF s1.panic # "" THEN Ends(sghmc, s1.panic)
                 ELSE IF sghmc.istep + 1 # sghmc.L
                 THEN [sghmc EXCEPT !.istep = @ + 1, !.grads = @ + 1,
                                    !.pc = "Observe"]
                 ELSE [sghmc EXCEPT !.istep = @ + 1, !.grads = @ + 1,
                                    !.NAcc = @ + 1, !.pc = "send"]
    /\ UNCHANGED <<tvars, mtvars, evals>>

\* no receive makes the stop set by the caller visible to the goroutine
NeverSynchronised(sg) == FALSE

\* the caller receives a sample: what it has written to stop before is
\* visible to the goroutine when its send ends
Synchronised(sg) == sg.stop

\* samples <- x, with the caller receiving; a send on a closed channel
\* panics
SgSend ==
    /\ sghmc.pc = "send"
    /\ sghmc' = IF sghmc.closed > 0
                THEN Ends([sghmc EXCEPT !.late = @ + 1],
                          "send on closed channel")
                ELSE [sghmc EXCEPT
                        !.sent = @ + 1, !.pc = "for",
                        !.hist = Append(@, [obs |-> sghmc.obs,
                                            grads |-> sghmc.grads,
                                            NAcc |-> sghmc.NAcc,
                                            depth |-> Len(SgTape.cstack)]),
                        !.obs = 0, !.grads = 0,
                        !.synced = Synchronised(sghmc),
                        !.after = IF sghmc.stop THEN @ + 1 ELSE @]
    /\ UNCHANGED <<tvars, mtvars, heap, evals>>

\* the deferred function: recover() ends the panic, if there is one
SgRecover ==
    /\ sghmc.pc = "deferred"
    /\ Deferred(sghmc.d) = "recover"
    /\ sghmc' = DeferredReturns([sghmc EXCEPT !.recovered = sghmc.panicking,
                                              !.panicking = ""], "recover")
    /\ UNCHANGED <<tvars, mtvars, heap, evals>>

\* the deferred close(samples); closing a closed channel panics
SgClose ==
    /\ sghmc.pc = "deferred"
    /\ Deferred(sghmc.d) = "close"
    /\ sghmc' = DeferredReturns(
                   [sghmc EXCEPT !.closed = @ + 1,
                                 !.panicking =
                                    IF sghmc.closed > 0
                                    THEN "close of closed channel" ELSE @],
                   "close")
    /\ UNCHANGED <<tvars, mtvars, heap, evals>>

\* the deferred ad.DropTape(): drop on the store
SgDropTape ==
    /\ sghmc.pc = "deferred"
    /\ Deferred(sghmc.d) = "DropTape"
    /\ dropCall(Goroutine)
    /\ sghmc' = [sghmc EXCEPT !.pc = "DropTape"]

\* drop has returned, and with it DropTape
SgDropped ==
    /\ sghmc.pc = "DropTape"
    /\ threads[Goroutine].pc = "idle"
    /\ sghmc' = DeferredReturns(sghmc, "DropTape")
    /\ UNCHANGED <<tvars, mtvars, heap, evals>>

SgNext ==
    \/ SgStop
    \/ SgFor
    \/ SgGet
    \/ \E t \in Threads : Lock(t) /\ UNCHANGED sghmc
    \/ \E t \in Threads : getLookup(t) /\ UNCHANGED sghmc
    \/ \E t \in Threads : Unlock(t) /\ UNCHANGED sghmc
    \/ \E t \in Threads : getNewTape(t) /\ UNCHANGED sghmc
    \/ \E t \in Threads : getInsert(t) /\ UNCHANGED sghmc
    \/ \E t \in Threads : getReturn(t) /\ UNCHANGED sghmc
    \/ SgObserve
    \/ SgGradient
    \/ SgSend
    \/ SgRecover
    \/ SgClose
    \/ SgDropTape
    \/ \E t \in Threads : dropDelete(t) /\ UNCHANGED sghmc
    \/ SgDropped

SgSpec == SgInit /\ [][SgNext]_vars

\* the steps of the goroutine other than Observe and Gradient, and the
\* caller receiving from samples
SgRun ==
    \/ SgFor
    \/ SgGet
    \/ \E t \in Threads : Lock(t) /\ UNCHANGED sghmc
    \/ \E t \in Threads : getLookup(t) /\ UNCHANGED sghmc
    \/ \E t \in Threads : Unlock(t) /\ UNCHANGED sghmc
    \/ \E t \in Threads : getNewTape(t) /\ UNCHANGED sghmc
    \/ \E t \in Threads : getInsert(t) /\ UNCHANGED sghmc
    \/ \E t \in Threads : getReturn(t) /\ UNCHANGED sghmc
    \/ SgSend
    \/ SgRecover
    \/ SgClose
    \/ SgDropTape
    \/ \E t \in Threads : dropDelete(t) /\ UNCHANGED sghmc
    \/ SgDropped

\* the goroutine can call m.Observe, model.Gradient: the guards of
\* SgObserve and SgGradient
CanObserve == sghmc.pc = "Observe" /\ OnTape(Goroutine)

CanGradient == sghmc.pc = "Gradient" /\ OnTape(Goroutine)

\* the goroutine is scheduled while it can run, and the caller receives
\* the samples sent to it.  For Observe and Gradient weak fairness is
\* written out, with the guard of the action for its enabledness
SgLiveSpec ==
    /\ SgInit /\ [][SgNext]_vars
    /\ WF_vars(SgRun)
    /\ ([]<>~CanObserve \/ []<><<SgObserve>>_vars)
    /\ ([]<>~CanGradient \/ []<><<SgGradient>>_vars)

\* ------------------------------------------------------------------------
\* Properties

\* a new tape with the registrations of the init functions
Fresh == Join(NewTape, <<>>, InitElementals, "")

\* the gradient of function f at x on a new tape, at top level
TopLevelGradient(f, x) == Ddx(Fresh, 1, x, Body(f)).ret

\* C1: after the Gradient or Pop matching a Setup, the lengths of records,
\* places, values, elementals and of the frame stack are those from before
\* the Setup, at top level and in a nested frame.
C1_PopRestoresLengths ==
    result.op # "none" =>
        \A k \in {"records", "places", "values", "elementals", "cstack"} :
            result.post[k] = result.pre[k]

C1_Witness ==
    /\ result.op = "Gradient"
    /\ result.depth = 2
    /\ result.f = "y = (x -> x * x)(x)"
    /\ result.pre.records > 1
    /\ result.pre.values > 1
    /\ result.post.records = result.pre.records
    /\ result.post.values = result.pre.values

\* C2: after Setup; f; Gradient the adjoint index adj and the adjoint
\* buffer adv have the lengths they had before Setup.
C2_AdjointsTruncated ==
    result.op = "Gradient" =>
        /\ result.post.adj = result.pre.adj
        /\ result.post.adv = result.pre.adv

\* C3: an evaluation Setup(x); f; Gradient() in a nested frame, or after
\* earlier Gradient calls, returns the gradient returned by the same
\* evaluation on a new tape at top level.
C3_GradientOfCurrentFrame ==
    result.op = "Gradient" => result.g = TopLevelGradient(result.f, result.x)

\* C4: for a frame whose result is one Arithmetic record over distinct
\* parameters x and y, Gradient returns [-1] for Neg, [1, 1] for Add,
\* [1, -1] for Sub, [y, x] for Mul and [1/y, -x/y^2] for Div.
C4_ArithmeticGradients ==
    result.op = "Gradient" =>
        LET x == result.x
        IN  /\ result.f = "-x" => result.g = <<R(-1)>>
            /\ result.f = "x + y" => result.g = <<R(1), R(1)>>
            /\ result.f = "x - z" => result.g = <<R(1), R(-1)>>
            /\ result.f = "x * y" => result.g = <<x[2], x[1]>>
            /\ result.f = "x / y" =>
                  result.g = <<RDiv(R(1), x[2]),
                               RNeg(RDiv(x[1], RMul(x[2], x[2])))>>

\* C5: with the same parameter x as both operands of one Arithmetic
\* record, the gradient is 2x for Mul, 2 for Add, 0 for Sub and 0 for Div.
C5_AliasedOperands ==
    result.op = "Gradient" =>
        LET x == result.x
        IN  /\ result.f = "x * x" => result.g = <<RMul(R(2), x[1])>>
            /\ result.f = "x + x" => result.g = <<R(2)>>
            /\ result.f = "x - x" => result.g = <<R(0)>>
            /\ result.f = "x / x" => result.g = <<R(0)>>

\* C6: for a result composed of several Arithmetic records Gradient sums
\* the contributions of all paths: x*x + y*y gives [2x, 2y] and
\* (x+y)*(x+y) gives [2(x+y), 2(x+y)].
C6_CompositeGradients ==
    result.op = "Gradient" =>
        LET x == result.x
        IN  /\ result.f = "x * x + y * y" =>
                  result.g = <<RMul(R(2), x[1]), RMul(R(2), x[2])>>
            /\ result.f = "(x + y) * (x + y)" =>
                  result.g = <<RMul(R(2), RAdd(x[1], x[2])),
                               RMul(R(2), RAdd(x[1], x[2]))>>

\* C7: an assignment moves the adjoint of its target to its source:
\* x = 2; x*x has gradient [0], and x = y; x + y has gradient [0, 2].
C7_AssignmentGradients ==
    result.op = "Gradient" =>
        /\ result.f = "x = 2.; z = x * x" => result.g = <<R(0)>>
        /\ result.f = "x = y; x + y" => result.g = <<R(0), R(2)>>

\* C8: Assignment(x, x) before a computation leaves its gradient as it is
\* without the assignment: x = x alone has gradient [1], and
\* x = x; z = x*x has gradient [2x].
C8_AssignmentIdentity ==
    result.op = "Gradient" =>
        LET x == result.x
        IN  /\ result.f = "x = x" => result.g = <<R(1)>>
            /\ result.f = "x = x; z = x * x" => result.g = <<RMul(R(2), x[1])>>

\* the functions which execute a method through Call
CallFunctions ==
    {"(x -> x)(x)", "(x -> x * x)(x)", "y = (x -> x * x)(x)",
     "(x, y -> x + y)(x, y)", "(a, b -> a / b)(x, y)", "(x -> x * x)(x) * y",
     "(px, py -> *px = *py)(&x, &y); x + y",
     "(px, py -> *px = *py)(&x, &y); x * y",
     "(x -> (y -> y * y)(x))(x)"}

\* the same function with the body of the method in place of the Call,
\* on the actual parameters
Inlined(f) ==
    CASE f = "(x -> x)(x)" -> "x"
      [] f = "(x -> x * x)(x)" -> "x * x"
      [] f = "y = (x -> x * x)(x)" -> "y = x * x"
      [] f = "(x, y -> x + y)(x, y)" -> "x + y"
      [] f = "(a, b -> a / b)(x, y)" -> "x / y"
      [] f = "(x -> x * x)(x) * y" -> "x * x * y"
      [] f = "(px, py -> *px = *py)(&x, &y); x + y" -> "x = y; x + y"
      [] f = "(px, py -> *px = *py)(&x, &y); x * y" -> "x = y; x * y"
      [] f = "(x -> (y -> y * y)(x))(x)" -> "x * x"

\* a frame can be opened in this state
CanSetup == panic = "" /\ (Depth > 0 => (Running /\ ~Called(S)))

\* the functions with a Call among those the run is about: the function
\* differentiated so far or the one it is the inlined form of, and all of
\* them before the first frame
CallsOfSuite ==
    {f \in CallFunctions : Suite \in {"", f, Inlined(f)}}

C10_ElementalChainRule ==
    result.op = "Gradient" =>
        LET x == result.x
        IN  /\ result.f = "sqrt(x)" =>
                  result.g = <<RDiv(<<1, 2>>, RSqrt(x[1]))>>
            /\ result.f = "sqrt(x * y)" =>
                  LET d == RDiv(<<1, 2>>, RSqrt(RMul(x[1], x[2])))
                  IN  result.g = <<RMul(d, x[2]), RMul(d, x[1])>>
            /\ result.f = "twoArgElemental(x, y)" => result.g = <<x[2], x[1]>>
            /\ result.f = "threeArgElemental(x, y, t)" =>
                  result.g = <<R(1), R(1), R(1)>>
            /\ result.f = "variadicElemental(x, y)" => result.g = <<R(1), R(-1)>>

\* the partials the gradient registered for the Elemental record r returns
\* in the backward pass
PartialsOf(r) ==
    LET e == At(tape.elementals, r.op)
    IN  GradientRun(e.g, Deref(S, r.p), [i \in 1..e.n |-> ValAt(S, r.v + i - 1)])

\* C11: for every Elemental record on the tape the registered gradient
\* returns one partial per operand, so that the backward pass finds a
\* partial for each of the n operands of the record.
C11_PartialsPerOperand ==
    \A ir \in 1..Len(tape.records) :
        LET r == tape.records[ir]
        IN  r.typ = typElemental =>
                Len(PartialsOf(r)) = At(tape.elementals, r.op).n

\* the running function takes its step k in this transition
Stepped(k) ==
    /\ panic = "" /\ Running /\ Cur.k = k
    /\ Len(frames') = Depth
    /\ frames'[Depth].pc = Frame.pc + 1

\* C12: Elemental on a function without a registered gradient panics,
\* leaves records, places and elementals as they are and stores no value
\* of the function (the cell allocated for the result stays 0, and no
\* other cell changes); on a registered function it logs the gradient
\* registered last; RegisterElemental makes its gradient the registered
\* one, replacing an earlier registration, and changes no other entry.
C12_UnregisteredElemental ==
    [][/\ Stepped("Elemental") =>
            IF Cur.f \in DOMAIN elementals
            THEN /\ panic' = ""
                 /\ tape'.elementals =
                        Append(tape.elementals,
                               [n |-> Len(Cur.a), g |-> elementals[Cur.f]])
            ELSE /\ panic' = "not an elemental"
                 /\ tape'.records = tape.records
                 /\ tape'.places = tape.places
                 /\ tape'.elementals = tape.elementals
                 /\ \A a \in DOMAIN mem : a[1] # "v" => mem'[a] = mem[a]
                 /\ \A i \in 0..(tape.values.len - 1) :
                        mem'[<<"v", tape'.values.cap, i + 1>>] = ValAt(S, i)
                 /\ mem'[<<"v", tape'.values.cap, tape'.values.len>>] = R(0)
       /\ Stepped("RegisterElemental") =>
            /\ Cur.f \in DOMAIN elementals'
            /\ elementals'[Cur.f] = Cur.g
            /\ \A f \in DOMAIN elementals :
                    f # Cur.f => elementals'[f] = elementals[f]]_vars

C12_Witness ==
    /\ panic = "not an elemental"
    /\ Depth = 2
    /\ Frame.f = "abs(x)"
    /\ Frame.pc = 2
    /\ Len(tape.elementals) = 0
    /\ tape.values.len = 3

\* C13: with no frame on the stack Gradient and Pop panic, and leave the
\* arrays of the tape and every cell as they are.
C13_NoFrame ==
    (panic = "" /\ Len(tape.cstack) = 0) =>
        /\ Gradient(S).panic # ""
        /\ TapeOf(Gradient(S)) = tape
        /\ Gradient(S).mem = mem
        /\ Pop(S).panic # ""
        /\ TapeOf(Pop(S)) = tape
        /\ Pop(S).mem = mem

C13_Witness ==
    /\ panic = "index out of range"
    /\ Depth = 0
    /\ result.op = "Gradient"
    /\ Len(tape.adv) > 0
    /\ Len(tape.records) = 1

\* C14: Called() holds exactly when the last primitive executed by the
\* running function is Call, that is from the marker appended by Call to
\* the first record of the called method; it does not hold before Setup,
\* after Enter, after Call has returned or after Gradient and Pop.
C14_CalledWindow ==
    Called(S) <=>
        /\ Depth > 0
        /\ Frame.pc > 1
        /\ Body(Frame.f)[Frame.pc - 1].k = "Call"

C14_Witness ==
    /\ Called(S)
    /\ Depth = 2
    /\ Len(calls) = 2
    /\ Frame.f = "(x -> (y -> y * y)(x))(x)"
    /\ Frame.pc = 4

\* the Go indices of the records of type typ
RecordsOfType(typ) ==
    {ir \in 0..(Len(tape.records) - 1) : At(tape.records, ir).typ = typ}

\* C15: the call markers on the tape are those of the Calls which have not
\* returned, nested ones included: when the outermost Call has returned
\* none is left, none is among the records a Gradient walks over, and the
\* backward pass never panics on a bad record type.
C15_MarkersConverted ==
    /\ RecordsOfType(typCall) = {calls[k].icall : k \in 1..Len(calls)}
    /\ (Depth > 0 /\ ~Running) =>
            \A ir \in RecordsOfType(typCall) : ir < Top(S).r
    /\ panic # "bad type"

C15_Witness ==
    /\ Depth = 1
    /\ ~Running
    /\ Frame.f = "(x -> (y -> y * y)(x))(x)"
    /\ calls = <<>>
    /\ Cardinality(RecordsOfType(typDummy)) = 3
    /\ Gradient(S).ret = <<RMul(R(2), Frame.x[1])>>

\* what a Return step of the running function does to the tape
ReturnEffect ==
    Stepped("Return") =>
        LET px == Frame.env[Cur.a[1]]
        IN  /\ tape'.places = SetAt(tape.places, Top(S).p, px)
            /\ tape'.records = tape.records
            /\ tape'.values = tape.values
            /\ tape'.elementals = tape.elementals
            /\ tape'.cstack = tape.cstack
            /\ mem' = mem
            /\ Return(S, px).ret = mem[px]

\* the gradient of the cell installed by the last Return of a frame, for
\* a function whose only Return installs its parameter and for one where
\* the Return of a called method (of x * x) is followed by the caller's
\* own Return (of x * x * y)
LastReturnDifferentiated(res) ==
    res.op = "Gradient" =>
        /\ res.f = "x" => res.g = <<R(1)>>
        /\ res.f = "(x -> x * x)(x) * y" =>
              res.g = <<RMul(R(2), RMul(res.x[1], res.x[2])),
                        RMul(res.x[1], res.x[1])>>

\* C16: Return(c) writes c into the result slot of the current frame,
\* changes no other place, no record, no value and no cell, and returns
\* the value of c; a later Return in the frame replaces it, and Gradient
\* returns the gradient of the cell installed by the last Return.
C16_ReturnInstallsResult ==
    [][ReturnEffect /\ LastReturnDifferentiated(result')]_vars

\* the function of frame k has not called Return yet
NotReturned(k) ==
    \A j \in 1..(frames[k].pc - 1) : Body(frames[k].f)[j].k # "Return"

\* the places of the open frames: the result slot, which until the first
\* Return is the zero cell allocated by Setup in tape.values, and then
\* the elements of the parameter vector in order
FrameLayout ==
    \A k \in 1..Len(tape.cstack) :
        LET c == tape.cstack[k]
            slot == At(tape.places, c.p)
        IN  /\ c.n = Len(frames[k].x)
            /\ Len(tape.places) >= c.p + 1 + c.n
            /\ \A i \in 1..c.n : At(tape.places, c.p + i) = <<"x", k, i>>
            /\ NotReturned(k) =>
                    /\ slot[1] = "v"
                    /\ slot[3] = c.v + 1
                    /\ mem[slot] = R(0)

\* this transition is a Gradient which returns
GradientReturns == Len(frames') = Depth - 1 /\ result'.op = "Gradient"

\* C17: in every open frame the place at frame.p is the result slot (the
\* zero cell of Setup until Return) and the next n places are &x[0] ..
\* &x[n-1]; Gradient returns n values, the i-th being the adjoint shared
\* by all places of the frame which are &x[i], and nothing when n = 0.
C17_ParameterPlaces ==
    [][/\ FrameLayout'
       /\ GradientReturns =>
            LET c == Top(S)
            IN  /\ Len(result'.g) = c.n
                /\ Len(result'.g) = Len(Frame.x)
                /\ \A i \in 1..c.n :
                       \A j \in c.p..(Len(tape.places) - 1) :
                          At(tape.places, j) = <<"x", Depth, i>> =>
                             result'.g[i] = At(tape'.adv, At(tape'.adj, j))]_vars

C17_Witness ==
    /\ result.op = "Gradient"
    /\ result.f = "threeArgElemental(x, y, t)"
    /\ result.depth = 2
    /\ Depth = 1
    /\ Len(result.g) = 3
    /\ \A i \in 1..3 :
          result.g[i] = At(tape.adv, At(tape.adj, Len(tape.places) + i))

\* sequence s is the first Len(s) elements of sequence t
IsPrefix(s, t) == Len(s) <= Len(t) /\ s = Take(t, Len(s))

\* this transition is a Gradient or a Pop which returns
FramePopped == Len(frames') = Depth - 1

\* Pop removes the top frame only and cuts the arrays at their tail
PopsTopFrame ==
    FramePopped =>
        /\ tape'.cstack = Take(tape.cstack, Len(tape.cstack) - 1)
        /\ IsPrefix(tape'.records, tape.records)
        /\ IsPrefix(tape'.places, tape.places)
        /\ IsPrefix(tape'.elementals, tape.elementals)
        /\ tape'.values.len <= tape.values.len
        /\ tape'.values.cap = tape.values.cap
        /\ \A i \in 0..(tape'.values.len - 1) :
               mem'[<<"v", tape.values.cap, i + 1>>] = ValAt(S, i)

\* the primitives the running function has still to call
Rest == SubSeq(Body(Frame.f), Frame.pc, Len(Body(Frame.f)))

\* the gradient the running function obtains when it goes on from tape s
OuterGradient(s) ==
    Gradient(DoAll([s |-> [s EXCEPT !.ret = <<>>], env |-> Frame.env,
                    calls |-> calls], Rest).s).ret

\* a complete evaluation of the function of the run at x, nested in the
\* frame of the running function, leaves the records, the places and the
\* values of the open frames as they are, and does not change the
\* gradient the running function obtains afterwards
InnerEvaluationInvisible ==
    (CanSetup /\ Depth > 0) =>
        \A x \in InputsOf(Frame.f) :
            LET inner == Ddx(S, Depth + 1, x, Body(Frame.f))
            IN  inner.panic = "" =>
                   /\ inner.cstack = tape.cstack
                   /\ inner.records = tape.records
                   /\ inner.places = tape.places
                   /\ inner.values.len = tape.values.len
                   /\ \A i \in 0..(tape.values.len - 1) :
                          ValAt(inner, i) = ValAt(S, i)
                   /\ OuterGradient(inner) = OuterGradient(S)

\* C18: Pop, called directly or by Gradient, removes exactly the top
\* frame, leaves the counters of the frames below as they are and cuts the
\* arrays of the tape at the tail; an evaluation Setup; f; Gradient()
\* nested in an open frame leaves the records, places and values of that
\* frame unchanged, and the Gradient of that frame returns what it returns
\* without the nested evaluation.
C18_PopRemovesTopFrame ==
    [][PopsTopFrame /\ InnerEvaluationInvisible]_vars

\* thread t returns from get in this transition
GetReturns(t) == threads[t].pc = "get:return" /\ threads'[t].pc = "idle"

\* C19: get returns to a thread the tape its last get returned, unless the
\* thread has called drop since or has not called get before, and then a
\* tape no get has returned before, whatever the other threads do in
\* between (get, drop, clear, MTSafeOn); no tape is returned to two threads.
C19_SameTapeUntilDrop ==
    [][\A t \in Threads :
          GetReturns(t) =>
             /\ threads[t].held # 0 => threads'[t].held = threads[t].held
             /\ threads[t].held = 0 =>
                    \A u \in Threads : threads'[t].held \notin threads[u].recd
             /\ \A u \in Threads \ {t} :
                    threads'[t].held \notin threads[u].recd]_vars

\* the threads between a Lock and the Unlock which follows it
InSection ==
    {t \in Threads :
        threads[t].pc \in {"get:lookup", "get:Unlock", "get:insert",
                           "get:Unlock2", "drop:delete", "drop:Unlock"}}

\* the threads about to read, insert into or delete from the map
AtMap ==
    {t \in Threads :
        threads[t].pc \in {"get:lookup", "get:insert", "drop:delete"}}

\* C20: a thread reads, inserts into and deletes from the map of threads
\* to tapes only while it holds the mutex of the store; at most one thread
\* is between a Lock and its Unlock at a time; a thread outside get and
\* drop holds no mutex; and a locked mutex is held by a thread which goes
\* on to unlock it without waiting, so that get and drop do not deadlock.
C20_MapUnderMutex ==
    /\ \A t \in AtMap : stores[threads[t].recv].holder = t
    /\ Cardinality(InSection) <= 1
    /\ \A t \in Threads \ InSection :
          \A k \in 1..Len(stores) : stores[k].holder # t
    /\ \A k \in 1..Len(stores) :
          stores[k].holder # 0 =>
             /\ stores[k].holder \in InSection
             /\ threads[stores[k].holder].recv = k

LinearTerms == {"x * y", "x / y", "x + y", "x * x + y * y", "sqrt(x * y)"}

Coefficients == {<<R(2), R(3)>>, <<R(-1), <<1, 2>>>>, <<R(0), R(1)>>}

\* the pairs of terms among those the run is about
LinearOfSuite ==
    {fg \in LinearTerms \X LinearTerms :
        \/ Suite \in {"", fg[1], fg[2]}
        \/ Suite = "2. * (x * y) + 3. * (x / y)"
             /\ fg = <<"x * y", "x / y">>}

\* a * u + b * v, entry by entry
Combined(a, u, b, v) ==
    [i \in DOMAIN u |-> RAdd(RMul(a, u[i]), RMul(b, v[i]))]

\* C22: from every state in which a frame can be opened, the gradient of
\* a * f(x) + b * g(x), recorded with Arithmetic OpMul and OpAdd on
\* Value(a), Value(b) and the results of f and g, is a times the gradient
\* of f plus b times the gradient of g.
C22_Linearity ==
    CanSetup =>
        \A fg \in LinearOfSuite, ab \in Coefficients, x \in Inputs :
            Len(x) = 2 =>
                Ddx(S, Depth + 1, x,
                    Linear(ab[1], ab[2], Body(fg[1]), Body(fg[2]), 2)).ret
                  = Combined(ab[1], Ddx(S, Depth + 1, x, Body(fg[1])).ret,
                             ab[2], Ddx(S, Depth + 1, x, Body(fg[2])).ret)

\* the combination has been differentiated: 2 * [8, 2] + 3 * [1/8, -1/32]
C22_Witness ==
    /\ result.op = "Gradient"
    /\ result.f = "2. * (x * y) + 3. * (x / y)"
    /\ result.x = <<R(2), R(8)>>
    /\ result.g = <<<<131, 8>>, <<125, 32>>>>
    /\ CanSetup
    /\ result.g = Combined(R(2), Ddx(S, Depth + 1, result.x, Body("x * y")).ret,
                           R(3), Ddx(S, Depth + 1, result.x, Body("x / y")).ret)

\* the function with ParallelAssignment(t, s) for each Assignment(t, s)
AsParallel(body) ==
    [i \in DOMAIN body |->
        IF body[i].k = "Assignment" THEN IParallel(body[i].a) ELSE body[i]]

\* the functions with an Assignment among those the run is about
AssignmentsOfSuite ==
    {f \in Functions :
        /\ Suite \in {"", f}
        /\ \E i \in DOMAIN Body(f) : Body(f)[i].k = "Assignment"}

\* the values of the locations known to the function at e, in memory m
CellValues(e, m) == [j \in DOMAIN e.env |-> m[e.env[j]]]

\* the function has run with Assignment (ea) and with ParallelAssignment
\* (eb): same values of its cells, same gradient, same values of its cells
\* after Gradient
SameAsParallel(ea, eb) ==
    LET ga == Gradient(ea.s)
        gb == Gradient(eb.s)
    IN  /\ ea.s.panic = "" /\ eb.s.panic = ""
        /\ CellValues(ea, ea.s.mem) = CellValues(eb, eb.s.mem)
        /\ ga.panic = "" /\ gb.panic = ""
        /\ ga.ret = gb.ret
        /\ CellValues(ea, ga.mem) = CellValues(eb, gb.mem)

\* C23: Assignment(t, s) is ParallelAssignment(t, s) with one target and
\* one source: from every state in which a frame can be opened, a function
\* leaves the same values in its cells, has the same gradient and leaves
\* the same values in its cells after Gradient whichever of the two
\* records its assignments, for t # s and for t = s.
C23_AssignmentIsParallel ==
    CanSetup =>
        \A f \in AssignmentsOfSuite : \A x \in InputsOf(f) :
            SameAsParallel(
                DoAll(DoSetup(S, Depth + 1, x), Body(f)),
                DoAll(DoSetup(S, Depth + 1, x), AsParallel(Body(f))))

\* x = y; x * y has been differentiated, and from the state reached it
\* and x = x; z = x * x behave the same with ParallelAssignment
C23_Witness ==
    /\ result.op = "Gradient"
    /\ result.f = "x = y; x * y"
    /\ result.g = <<R(0), R(16)>>
    /\ CanSetup
    /\ Ddx(S, Depth + 1, result.x, AsParallel(Body(result.f))).ret = result.g
    /\ Ddx(S, Depth + 1, <<R(4)>>, AsParallel(Body("x = x; z = x * x"))).ret
         = <<R(8)>>

\* the functions which start with a parallel assignment of their
\* parameters: the function they go on with (then) and, for each
\* parameter, the parameter whose value it receives (from)
Permuted ==
    {[f |-> "x, y = y, x; x / y", then |-> "x / y", from |-> <<2, 1>>],
     [f |-> "x, y, t = y, t, x; x * y - t", then |-> "x * y - t",
      from |-> <<2, 3, 1>>]}

\* the running function is about to call ParallelAssignment: each target
\* receives the value its source has before the call
SourcesReadFirst ==
    LET k == Len(Cur.a) \div 2
        s1 == DoParallelAssignment(E, Cur).s
    IN  \A i \in 1..k :
            s1.mem[Frame.env[Cur.a[i]]] = mem[Frame.env[Cur.a[k + i]]]

\* the gradient of q.f at x: the adjoint of each target has gone to its
\* source, so the partial derivative by a parameter is the one of q.then
\* by the parameter which received its value, at the permuted vector
AdjointsExchanged(q, x) ==
    LET px == [i \in DOMAIN x |-> x[q.from[i]]]
        g == Ddx(S, Depth + 1, x, Body(q.f)).ret
        h == Ddx(S, Depth + 1, px, Body(q.then)).ret
    IN  /\ Len(g) = Len(x)
        /\ \A i \in DOMAIN x : g[q.from[i]] = h[i]

\* C24: ParallelAssignment reads all its sources before it writes any
\* target, so that a swap exchanges the values; and on the backward pass
\* the adjoints are exchanged accordingly.
C24_ParallelAssignment ==
    /\ (panic = "" /\ Running /\ Cur.k = "ParallelAssignment")
          => SourcesReadFirst
    /\ CanSetup =>
          \A q \in Permuted : \A x \in InputsOf(q.f) :
              Suite \in {"", q.f, q.then} => AdjointsExchanged(q, x)

\* three parameters have been rotated and differentiated, and the next
\* frame is about to rotate them again
C24_Witness ==
    /\ result.op = "Gradient"
    /\ result.f = "x, y, t = y, t, x; x * y - t"
    /\ result.g = <<R(-1), R(3), R(2)>>
    /\ Running /\ Cur.k = "ParallelAssignment"
    /\ LET s1 == DoParallelAssignment(E, Cur).s
       IN  /\ mem[Frame.env[1]] = R(1) /\ s1.mem[Frame.env[1]] = R(2)
           /\ mem[Frame.env[2]] = R(2) /\ s1.mem[Frame.env[2]] = R(3)
           /\ mem[Frame.env[3]] = R(3) /\ s1.mem[Frame.env[3]] = R(1)

\* the places of the top frame of s
FramePlaces(s) == (Top(s).p)..(Len(s.places) - 1)

\* two places of the frame have the same adjoint exactly when they are the
\* same location
IndexByLocation(s) ==
    \A i, j \in FramePlaces(s) :
        At(s.adj, i) = At(s.adj, j) <=> At(s.places, i) = At(s.places, j)

\* the adjoints of the frame are entries added to adv, which had n entries
NewAdjoints(s, n) ==
    \A i \in FramePlaces(s) : n <= At(s.adj, i) /\ At(s.adj, i) < Len(s.adv)

\* the adjoint of the result is 1 and every other adjoint of the frame 0
OnlyResultSeeded(s) ==
    \A i \in FramePlaces(s) :
        Adv(s, i) = IF At(s.places, i) = At(s.places, Top(s).p) THEN R(1)
                    ELSE R(0)

\* C25: when the loop of backward over the records starts in a frame,
\* adj[i] = adj[j] exactly when places[i] and places[j] are the same
\* location, for the places of the frame; every adjoint of the frame is an
\* entry added to adv by this pass; and every adjoint of the frame is 0
\* but that of the result, which is 1, whatever earlier passes left in adv.
C25_AdjointIndex ==
    (panic = "" /\ Len(tape.cstack) > 0) =>
        LET s3 == Seeded(S)
        IN  /\ IndexByLocation(s3)
            /\ NewAdjoints(s3, Len(tape.adv))
            /\ OnlyResultSeeded(s3)

\* the locations the next primitive ins of the function at e assigns to:
\* the targets of an assignment, the formal parameters of an Enter
Targets(e, ins) ==
    CASE ins.k = "Assignment" -> <<e.env[ins.a[1]]>>
      [] ins.k = "ParallelAssignment" ->
            [i \in 1..(Len(ins.a) \div 2) |-> e.env[ins.a[i]]]
      [] ins.k = "Enter" ->
            [i \in 1..ins.op |-> <<"a", e.calls[Len(e.calls)].icall, i>>]
      [] OTHER -> <<>>

\* the value of the i-th of them before the primitive: for a formal
\* parameter the value the caller passes
Before(e, ins, i) ==
    IF ins.k = "Enter" THEN Deref(e.s, Len(e.s.places) - ins.op + i - 1)
    ELSE e.s.mem[Targets(e, ins)[i]]

RECURSIVE FirstValues(_, _, _)
\* the function at e runs body; orig maps each location assigned so far
\* to the value it had before the first assignment to it
FirstValues(e, body, orig) ==
    IF body = <<>> \/ e.s.panic # "" THEN [e |-> e, orig |-> orig]
    ELSE LET ins == Head(body)
             ts == Targets(e, ins)
             new == {i \in DOMAIN ts :
                        /\ ts[i] \notin DOMAIN orig
                        /\ \A j \in 1..(i - 1) : ts[j] # ts[i]}
             orig1 == [t \in DOMAIN orig \cup {ts[i] : i \in new} |->
                          IF t \in DOMAIN orig THEN orig[t]
                          ELSE Before(e, ins, CHOOSE i \in new : ts[i] = t)]
         IN  FirstValues(Do(e, ins), Tail(body), orig1)

\* Setup(x), function f, Gradient() from the current state: every cell
\* assigned to has again its value from before the first assignment, and
\* x its values from Setup
CellsRestored(f, x) ==
    LET fv == FirstValues(DoSetup(S, Depth + 1, x), Body(f), <<>>)
        g == Gradient(fv.e.s)
    IN  g.panic = "" =>
            /\ \A t \in DOMAIN fv.orig : g.mem[t] = fv.orig[t]
            /\ \A i \in DOMAIN x : g.mem[<<"x", Depth + 1, i>>] = x[i]

\* C26: after Setup(x), a function which assigns to cells (several times
\* to the same cell, a cell to itself, through Enter of a Call) and
\* Gradient(), every cell assigned to holds the value it had before the
\* first assignment of the frame to it, and x its values from Setup; and
\* the records before an assignment are differentiated with the values
\* their operands had on the forward pass: a product whose operands are
\* assigned to afterwards has the gradient of the product.
C26_ValuesRestored ==
    CanSetup =>
        /\ \A f \in Functions : \A x \in InputsOf(f) :
              Suite \in {"", f} => CellsRestored(f, x)
        /\ Suite \in {"", "x * y", "z = x * y; x = 5.; y = x; x = z"} =>
              \A x \in InputsOf("x * y") :
                  Ddx(S, Depth + 1, x,
                      Body("z = x * y; x = 5.; y = x; x = z")).ret
                    = Ddx(S, Depth + 1, x, Body("x * y")).ret

\* the product with assignments after it has been differentiated: its
\* gradient is that of the product, x is as before, and in the next frame
\* the function has assigned three times to two cells
C26_Witness ==
    /\ result.op = "Gradient"
    /\ result.f = "z = x * y; x = 5.; y = x; x = z"
    /\ result.g = <<R(8), R(2)>>
    /\ result.xafter = result.x
    /\ Depth = 1 /\ ~Running
    /\ mem[<<"x", 1, 1>>] = R(16) /\ mem[<<"x", 1, 2>>] = R(5)
    /\ Gradient(S).mem[<<"x", 1, 1>>] = R(2)
    /\ Gradient(S).mem[<<"x", 1, 2>>] = R(8)

\* number of operands of an Arithmetic record
Arity(op) == IF op = OpNeg THEN 1 ELSE 2

\* record r of tape t addresses np places from r.p and nv values from r.v
Window(t, r, np, nv) ==
    /\ 0 <= r.p /\ r.p + np <= Len(t.places)
    /\ 0 <= r.v /\ r.v + nv <= t.values.len

\* the windows of record r are inside the place log and the value store
WindowsInside(t, r) ==
    CASE r.typ = typArithmetic -> Window(t, r, 1 + Arity(r.op), 0)
      [] r.typ = typAssignment -> r.op >= 0 /\ Window(t, r, 2 * r.op, r.op)
      [] r.typ = typElemental ->
            /\ 0 <= r.op /\ r.op < Len(t.elementals)
            /\ Window(t, r, 1 + At(t.elementals, r.op).n,
                      At(t.elementals, r.op).n)
      [] OTHER -> TRUE

\* the places of a window of n places from p
PlacesFrom(s, p, n) == [i \in 1..n |-> At(s.places, p + i - 1)]

\* the values of a window of n values from v
ValuesFrom(s, v, n) == [i \in 1..n |-> ValAt(s, v + i - 1)]

\* the record which the next primitive of the running function appends
\* has the layout of its type: the location of the result then those of
\* the operands; the targets then the sources, and the values the targets
\* have before the assignment; the result then the operands, the values
\* of the operands, and the entry of the elemental with their number
RecordLayout ==
    LET s1 == Do(E, Cur).s
        r == At(s1.records, Len(s1.records) - 1)
        px == Operands(E, Cur)
        k == Len(px) \div 2
    IN  s1.panic = "" =>
        CASE Cur.k = "Arithmetic" ->
                /\ r.typ = typArithmetic /\ r.op = Cur.op
                /\ Len(px) = Arity(r.op)
                /\ PlacesFrom(s1, r.p, 1 + Len(px)) = <<s1.ret>> \o px
          [] Cur.k \in {"Assignment", "ParallelAssignment"} ->
                /\ r.typ = typAssignment /\ r.op = k
                /\ PlacesFrom(s1, r.p, 2 * k) = px
                /\ ValuesFrom(s1, r.v, k) = [i \in 1..k |-> mem[px[i]]]
          [] Cur.k = "Elemental" ->
                /\ r.typ = typElemental
                /\ At(s1.elementals, r.op) =
                      [n |-> Len(px), g |-> elementals[Cur.f]]
                /\ PlacesFrom(s1, r.p, 1 + Len(px)) = <<s1.ret>> \o px
                /\ ValuesFrom(s1, r.v, Len(px)) =
                      [i \in 1..Len(px) |-> mem[px[i]]]
          [] OTHER -> TRUE

\* C27: every record of the tape addresses windows which lie inside the
\* place log and the value store: an Arithmetic record 1 + arity places
\* (result, operands); an Assignment record of arity k 2k places (targets,
\* sources) and at v the k values the targets had before; an Elemental
\* record 1 + n places (result, operands), at v the n values of the
\* operands, and in op the index of an entry of elementals with that n.
C27_RecordWindows ==
    /\ \A ir \in 1..Len(tape.records) :
          WindowsInside(tape, tape.records[ir])
    /\ (panic = "" /\ Running) => RecordLayout

\* a nested frame with an Arithmetic record and the record of an elemental
\* of one operand, whose window of values does not start at 0; the running
\* function is about to call Assignment
C27_Witness ==
    /\ \E ir \in 1..Len(tape.records) :
          /\ tape.records[ir].typ = typElemental
          /\ At(tape.elementals, tape.records[ir].op).n = 1
          /\ tape.records[ir].v > 0
    /\ \E ir \in 1..Len(tape.records) :
          tape.records[ir].typ = typArithmetic
    /\ panic = "" /\ Running /\ Cur.k = "Assignment"
    /\ Depth = 2

\* n - 1, n - 2, ..., bottom
Downto(n, bottom) == [i \in 1..(n - bottom) |-> n - i]

\* C28: backward, called when the function of the frame has returned,
\* visits every record of the frame exactly once, from the last one
\* appended down to the record at frame.r, visits no record below frame.r,
\* and comes to its end, also in a frame without records.
C28_ReverseWalk ==
    (panic = "" /\ Depth > 0 /\ ~Running) =>
        LET s1 == backward(S)
        IN  /\ s1.panic = ""
            /\ s1.walk = Downto(Len(tape.records), Top(S).r)

\* the differentiated methods
Methods == {"Observe", "Square"}

\* the current state with the float64 parameters px of a method invoked
\* in it and the vector x passed to it
Invoked(px, x) ==
    [S EXCEPT !.mem = StoreAll(StoreAll(@, px, [i \in DOMAIN px |-> R(0)]),
                               x, [i \in DOMAIN x |-> R(4)])]

\* a method invoked in the current state, which follows a Call: it runs
\* Enter, and no frame is opened
EntersAfterCall(name, px) ==
    LET x == ParamAddrs(Depth + 1, 1)
        s1 == Prologue(Invoked(px, x), name, px, x)
    IN  /\ s1.panic = ""
        /\ s1.cstack = tape.cstack
        /\ s1 = Enter(Invoked(px, x), px)

\* a method invoked in the current state, which does not follow a Call:
\* Observe opens a frame on its parameter vector, any other method panics
\* and leaves the tape as it is
SetsUpOrPanics(name, px) ==
    LET x == ParamAddrs(Depth + 1, 1)
        s1 == Prologue(Invoked(px, x), name, px, x)
    IN  IF name = "Observe"
        THEN /\ s1.panic = ""
             /\ Len(s1.cstack) = Len(tape.cstack) + 1
             /\ Top(s1).n = Len(x)
             /\ s1 = Setup(Invoked(px, x), x)
        ELSE /\ s1.panic = "called outside Observe"
             /\ TapeOf(s1) = tape

\* the running function is at the start of a generated method: the method
\* goes on exactly if it is Observe or was invoked through Call, and after
\* a Call it opens no frame
RunsThroughCall ==
    LET s1 == DoPrologue(E, Cur).s
    IN  /\ s1.panic = "" <=> (Called(S) \/ Cur.f = "Observe")
        /\ Called(S) => /\ s1.cstack = tape.cstack
                        /\ Len(s1.records) = Len(tape.records) + 1
                        /\ ~Called(s1)

\* C29: a generated method starts by testing Called(): if it is true the
\* method runs Enter on its float64 parameters; if not, Observe opens a
\* frame with Setup on its parameter vector and any other method panics.
\* So a method other than Observe runs on the tape only when invoked
\* through Call, and Observe invoked through Call opens no frame.
C29_EntryProtocol ==
    panic = "" =>
        /\ \A name \in Methods :
              LET px == IF name = "Observe" THEN <<>>
                        ELSE <<<<"a", Len(tape.records), 1>>>>
              IN  IF Called(S) THEN EntersAfterCall(name, px)
                  ELSE SetsUpOrPanics(name, px)
        /\ (Running /\ Cur.k = "Prologue") => RunsThroughCall

\* Observe invoked through Call has been differentiated in the frame of
\* its caller, and is invoked through Call again in the next frame, nested
\* in another one
C29_Witness ==
    /\ result.op = "Gradient"
    /\ result.f = "(Observe: x -> x[0] * x[0])(x)"
    /\ result.g = <<R(8)>>
    /\ panic = "" /\ Running /\ Cur.k = "Prologue" /\ Cur.f = "Observe"
    /\ Called(S)
    /\ Depth = 2
    /\ Len(DoPrologue(E, Cur).s.cstack) = 2

\* the goroutine has left its loop
Exiting == sghmc.pc \in {"deferred", "DropTape", "exit"}

\* the store in use has a tape for the goroutine
HasTape == Goroutine \in DOMAIN stores[tapes].store

\* the deferred calls run so far are the first ones of: recover, close,
\* DropTape
InExitOrder ==
    \E n \in 0..3 : sghmc.log = SubSeq(<<"recover", "close", "DropTape">>, 1, n)

\* C30: when the sampling goroutine exits, after it has seen stop or after
\* a panic in Observe or Gradient, the panic (if any) is recovered and does
\* not propagate, then samples is closed, exactly once, then the tape of
\* the goroutine is dropped; no sample is sent once samples is closed.
C30_SamplerExit ==
    /\ InExitOrder
    /\ sghmc.closed <= 1
    /\ sghmc.late = 0
    /\ sghmc.closed > 0 => (Exiting /\ sghmc.panicking = "")
    /\ threads[Goroutine].pc \in {"drop:Lock", "drop:delete", "drop:Unlock"} =>
          (sghmc.closed = 1 /\ sghmc.pc = "DropTape")
    /\ (Exiting /\ sghmc.d = 1) =>
          \/ sghmc.panicking = "" /\ sghmc.stop
          \/ sghmc.panicking # "" /\ sghmc.f \in {"abs(x)", "pow(x, y)"}
    /\ sghmc.pc = "exit" =>
          /\ sghmc.log = <<"recover", "close", "DropTape">>
          /\ sghmc.panicking = ""
          /\ sghmc.closed = 1
          /\ ~HasTape
          /\ threads[Goroutine].held = 0

\* the Gradient of the goroutine has panicked on its tape; the goroutine
\* has recovered, closed samples and dropped the tape, and has exited
C30_Witness ==
    /\ sghmc.pc = "exit"
    /\ sghmc.f = "pow(x, y)"
    /\ sghmc.recovered # ""
    /\ sghmc.closed = 1
    /\ ntapes = 1
    /\ ~HasTape

\* the goroutine is between two steps of its loop
BetweenSteps == sghmc.pc \in {"for", "Observe", "send"}

\* C31: every sample sent is preceded by exactly L steps since the send
\* before it (or the start), L being 10 when given as 0; each step is one
\* Observe followed at once by one Gradient, so the frame stack of the tape
\* of the goroutine is as deep at every send as at the start; NAcc is
\* incremented once per sample, before the send.
C31_StepsPerSample ==
    sghmc.pc # "none" =>
        /\ sghmc.L = (IF sghmc.given = 0 THEN 10 ELSE sghmc.given)
        /\ \A i \in DOMAIN sghmc.hist :
              /\ sghmc.hist[i].obs = sghmc.L
              /\ sghmc.hist[i].grads = sghmc.L
              /\ sghmc.hist[i].NAcc = i
              /\ sghmc.hist[i].depth = 0
        /\ Len(sghmc.hist) = sghmc.sent
        /\ sghmc.obs \in {sghmc.grads, sghmc.grads + 1}
        /\ sghmc.obs > sghmc.grads => (sghmc.pc = "Gradient" \/ Exiting)
        /\ sghmc.grads <= sghmc.L
        /\ BetweenSteps => Len(SgTape.cstack) = 0
        /\ sghmc.pc = "send" => (sghmc.grads = sghmc.L /\ sghmc.NAcc = sghmc.sent + 1)
        /\ sghmc.pc # "send" => sghmc.NAcc = sghmc.sent

\* two samples have been sent with L left 0: ten steps before each, and the
\* tape of the goroutine has grown
C31_Witness ==
    /\ sghmc.given = 0
    /\ Len(sghmc.hist) = 2
    /\ sghmc.hist[2].obs = 10
    /\ sghmc.hist[2].NAcc = 2
    /\ sghmc.NAcc = 2
    /\ Len(SgTape.adv) > 0

\* the goroutine leaves a pending send only by the caller receiving
LeavesSendByReceive ==
    sghmc.pc = "send" =>
        \/ sghmc'.pc = "send" /\ sghmc'.closed = 0 /\ sghmc'.sent = sghmc.sent
        \/ sghmc'.sent = sghmc.sent + 1

\* the goroutine has terminated with samples closed
Terminated == sghmc.pc = "exit" /\ sghmc.closed = 1

\* C32: once stop is set the goroutine sends at most one further sample
\* and, the caller receiving that sample, it eventually leaves the loop,
\* closes samples and terminates; as long as nobody receives, it stays
\* blocked on the send and samples stays open.
C32_Stopping ==
    /\ [](sghmc.after <= 1)
    /\ [](sghmc.pc = "send" => sghmc.closed = 0)
    /\ [][LeavesSendByReceive]_vars
    /\ sghmc.stop ~> Terminated

\* stop was set while the goroutine was in its loop; it has sent one more
\* sample, seen stop, closed samples and terminated
C32_Witness ==
    /\ sghmc.stop
    /\ sghmc.after = 1
    /\ sghmc.sent = 2
    /\ sghmc.recovered = ""
    /\ Terminated

\* frame c lies inside the tape
FrameInside(c) ==
    /\ 1 <= c.r /\ c.r <= Len(tape.records)
    /\ c.p < Len(tape.places)
    /\ c.v < tape.values.len
    /\ c.e <= Len(tape.elementals)
    /\ c.p + c.n < Len(tape.places)

\* the counters of frame c are not above those of frame d
NotAbove(c, d) == c.r <= d.r /\ c.p <= d.p /\ c.v <= d.v /\ c.e <= d.e

\* C33: in every reachable state the record log is not empty (it starts
\* with the Dummy record and no Pop truncates below it), and every frame c
\* of the frame stack has 1 <= c.r <= len(records), c.p < len(places),
\* c.v < len(values), c.e <= len(elementals), c.p + c.n < len(places),
\* the counters not decreasing from the bottom of the stack to the top.
C33_FramesWellFormed ==
    /\ Len(tape.records) >= 1
    /\ tape.records[1].typ = typDummy
    /\ \A i \in DOMAIN tape.cstack : FrameInside(tape.cstack[i])
    /\ \A i \in DOMAIN tape.cstack : \A j \in DOMAIN tape.cstack :
          i < j => NotAbove(tape.cstack[i], tape.cstack[j])

\* a nested frame opened above records, places and values of the frame
\* below it, after an earlier frame was popped
C33_Witness ==
    /\ Len(tape.cstack) = 2
    /\ nframes = 3
    /\ tape.cstack[2].r > tape.cstack[1].r
    /\ tape.cstack[2].p > tape.cstack[1].p + tape.cstack[1].n
    /\ tape.cstack[2].v > tape.cstack[1].v
    /\ Len(tape.records) > tape.cstack[2].r

\* the Call entered last which has not returned
LastCall == calls[Len(calls)]

\* Call has been entered with variadic arguments and has appended its
\* marker; the wrapped closure is about to run
VariadicCallEntered ==
    /\ panic = "" /\ Running
    /\ calls # <<>>
    /\ Called(S)
    /\ LastCall.vararg.len > 0

\* the parallel assignment recorded by variadic, just below the marker
VariadicRecord == At(tape.records, LastCall.icall - 1)

\* C34: when Call is entered with variadic arguments, the slice handed to
\* the wrapped closure has one element for each variadic actual, element i
\* holds the current value of the i-th variadic actual and is the storage
\* of the i-th left-hand cell of the recorded parallel assignment,
\* whatever length and capacity the value store has when Call is entered.
C34_VariadicCall ==
    VariadicCallEntered =>
        LET k == LastCall.vararg.len
            r == VariadicRecord
        IN  /\ r.typ = typAssignment
            /\ r.op = k
            /\ \A i \in 1..k :
                  /\ VarargCells(LastCall.vararg)[i] =
                        At(tape.places, r.p + i - 1)
                  /\ mem[VarargCells(LastCall.vararg)[i]] =
                        mem[At(tape.places, r.p + k + i - 1)]

====
